---- MODULE Spec2Model ----
(***************************************************************************)
(* License validation, lifecycle reconciliation and API-key authentication *)
(* of license-service-api, as a state machine.                             *)
(*                                                                         *)
(* The license store and the API-key store are the PostgreSQL tables; one  *)
(* action is one handler, service call, goroutine or (for the sweeps) one  *)
(* store round trip of a loop.  Time is a logical clock `now`.              *)
(***************************************************************************)
EXTENDS Integers, Sequences, FiniteSets, TLC

VARIABLES
    now,          \* the wall clock (time.Now())
    licenses,     \* table licenses: id -> row
    call,         \* the last ValidateLicense invocation: its request, locals and result
    expireTasks,  \* id -> number of detached lazy-expiration goroutines not yet run
    enrichTasks,  \* detached metadata-enrichment goroutines not yet run
    lastWrite,    \* the last UpdateStatus call: who issued it, on what, what it returned
    sweep,        \* driver -> the locals of that reconciliation sweep
    update,       \* the UpdateLicense call in flight: the row it read, as it will write it
    apikeys,      \* table api_keys: id -> row
    req,          \* the request to the validation endpoint in the handler chain
    usedTasks,    \* ids whose last-used goroutine has not yet run
    admin         \* the last administrative request: its error and its response

licenseVars == <<now, licenses, call, expireTasks, enrichTasks, lastWrite, sweep, update>>
authVars == <<apikeys, req, usedTasks, admin>>
vars == <<now, licenses, call, expireTasks, enrichTasks, lastWrite, sweep, update,
          apikeys, req, usedTasks, admin>>

---------------------------------------------------------------------------
\* Bounds of the model.

MaxTime == 3
MaxLicenses == 3
MaxTasks == 2
MaxRacing == 1
MaxKeys == 1
MaxVary == 2

---------------------------------------------------------------------------
\* Data.

NullTime == 0
Times == 1..MaxTime
LicenseIds == 1..MaxLicenses

StatusPending == "pending"
StatusActive == "active"
StatusInactive == "inactive"
StatusExpired == "expired"
StatusRevoked == "revoked"
Statuses == {StatusPending, StatusActive, StatusInactive, StatusExpired, StatusRevoked}

Products == {"Foo", "Bar"}

\* A JSON value of a metadata object: absent key, a string, or a non-string value.
Absent == <<"absent", "">>
JStr(s) == <<"string", s>>
JNum == <<"number", "7">>
\* An integer that no float64 holds: 2^53 + 1.
JBig == <<"number", "9007199254740993">>

\* v.(string): the value and whether the assertion succeeded.
IsStr(v) == v[1] = "string"
AsString(v) == IF IsStr(v) THEN v[2] ELSE ""

MetaKeyDeviceID == "device_id"
MetaKeyUserID == "user_id"
MetaKeyIPAddress == "ip_address"
MetaKeyLastValidatedAt == "last_validated_at"
MetaKeyFeatures == "features"
MetaKeyLimits == "limits"

\* json.RawMessage: kind "nil" is a nil slice (SQL NULL, or no metadata in the
\* request), "nonobject" is JSON that does not unmarshal into a map (an array, a
\* string, broken text), "object" is a JSON object with the keys that are not Absent.
NilMeta ==
    [kind |-> "nil", device_id |-> Absent, user_id |-> Absent, ip_address |-> Absent,
     last_validated_at |-> Absent, last_ip |-> Absent, features |-> Absent,
     limits |-> Absent, note |-> Absent]
NonObjectMeta == [NilMeta EXCEPT !.kind = "nonobject"]
EmptyObject == [NilMeta EXCEPT !.kind = "object"]

\* A JSON value decoded into interface{} and encoded again: a number becomes the
\* nearest float64, every other value is kept.
Float64(v) == IF v = JBig THEN <<"number", "9007199254740992">> ELSE v

\* json.Unmarshal of an object into map[string]interface{}.
Decode(m) == [k \in DOMAIN m |-> IF k = "kind" THEN m[k] ELSE Float64(m[k])]

\* A row of licenses.  requested is not a column: it keeps the initial_status of
\* the create request ("" when the request had none).
NoLicense ==
    [id |-> 0, license_key |-> "", status |-> "", product_name |-> "",
     expires_at |-> NullTime, issued_at |-> NullTime, created_at |-> NullTime,
     requested |-> "", metadata |-> NilMeta]

\* No UpdateLicense call is between its read and its write.
NoUpdate == [pc |-> "idle", current |-> NoLicense]

---------------------------------------------------------------------------
\* Contexts.

\* The mutant of DetachedContext: the goroutines inherit the context of the request.
DetachedContextOfRequest == "request"

\* context.WithTimeout(context.Background(), ...) of the three goroutines.
DetachedContext == "background"

\* c.Request.Context(): done once the client is gone or the deadline has passed.
RequestContext == "request"
ContextDone(ctx) == ctx = RequestContext /\ req.cancelled

\* A store call under ctx: it fails when the store fails or the context is done.
StoreCall(ctx, dbOk) == dbOk /\ ~ContextDone(ctx)

---------------------------------------------------------------------------
\* License store.

\* SELECT ... WHERE license_key = $1, scanned by scanLicense: the row, pgx.ErrNoRows
\* as it is, any other failure wrapped.
FindByKey(key, dbOk) ==
    IF ~dbOk THEN [err |-> "db", lic |-> NoLicense]
    ELSE IF \E id \in DOMAIN licenses : licenses[id].license_key = key
         THEN [err |-> "none",
               lic |-> licenses[CHOOSE id \in DOMAIN licenses : licenses[id].license_key = key]]
         ELSE [err |-> "no_rows", lic |-> NoLicense]

\* The mutant of UpdateStatusResult: UPDATE ... WHERE id = $2 AND status <> $1.
UpdateStatusResultIfChanged(id, status, dbOk) ==
    IF ~dbOk THEN "update_failed"
    ELSE IF id \notin DOMAIN licenses \/ licenses[id].status = status THEN "not_found"
    ELSE "none"

\* UPDATE licenses SET status = $1 WHERE id = $2: the error returned.
UpdateStatusResult(id, status, dbOk) ==
    IF ~dbOk THEN "update_failed"
    ELSE IF id \notin DOMAIN licenses THEN "not_found"
    ELSE "none"

\* The mutant of UpdateStatusRows: a revoked license stays revoked.
UpdateStatusRowsFromLive(id, status, dbOk) ==
    IF dbOk /\ id \in DOMAIN licenses /\ licenses[id].status # StatusRevoked
    THEN [licenses EXCEPT ![id].status = status]
    ELSE licenses

\* The mutant of UpdateStatusRows: a row set to active is stamped with issued_at.
UpdateStatusRowsStamping(id, status, dbOk) ==
    IF dbOk /\ id \in DOMAIN licenses
    THEN [licenses EXCEPT ![id].status = status,
                          ![id].issued_at = IF status = StatusActive THEN now ELSE @]
    ELSE licenses

\* The table after UpdateStatus: the status column of that row, nothing else.
UpdateStatusRows(id, status, dbOk) ==
    IF dbOk /\ id \in DOMAIN licenses
    THEN [licenses EXCEPT ![id].status = status]
    ELSE licenses

\* The record kept of an UpdateStatus call.
WriteRecord(src, id, status, dbOk) ==
    [src |-> src, id |-> id, status |-> status, dbOk |-> dbOk,
     before |-> IF id \in DOMAIN licenses THEN licenses[id].status ELSE "",
     err |-> UpdateStatusResult(id, status, dbOk)]

NoWrite == [src |-> "", id |-> 0, status |-> "", dbOk |-> TRUE, before |-> "", err |-> "none"]

---------------------------------------------------------------------------
\* LicenseService.ValidateLicense.

AgentMetaValid(m) == m.kind = "object"
LicenseMetaValid(m) == m.kind = "object"

\* The mutant of DateExpired: !now.Before(expires_at).
DateExpiredNotBefore(lic, t) == lic.expires_at # NullTime /\ t >= lic.expires_at

\* lic.ExpiresAt.Valid && now.After(lic.ExpiresAt.Time.UTC())
DateExpired(lic, t) == lic.expires_at # NullTime /\ t > lic.expires_at

\* One binding check (device_id or user_id): "ok" or the reason returned.
BindingCheck(lm, am, k, required, mismatch) ==
    LET licenseID == AsString(lm[k])
        hasBinding == IsStr(lm[k])
    IN  IF hasBinding /\ licenseID # ""
        THEN IF ~AgentMetaValid(am) THEN required
             ELSE IF ~IsStr(am[k]) \/ AsString(am[k]) = "" THEN required
             ELSE IF AsString(am[k]) # licenseID THEN mismatch
             ELSE "ok"
        ELSE "ok"

\* The mutant of BindingsReason: the user binding is checked before the device binding.
BindingsReasonUserFirst(lm, am) ==
    IF ~LicenseMetaValid(lm) THEN "ok"
    ELSE LET u == BindingCheck(lm, am, MetaKeyUserID, "user_id_required", "user_id_mismatch")
         IN  IF u # "ok" THEN u
             ELSE BindingCheck(lm, am, MetaKeyDeviceID, "device_id_required", "device_id_mismatch")

\* if licenseMetaValid { device binding; user binding }
BindingsReason(lm, am) ==
    IF ~LicenseMetaValid(lm) THEN "ok"
    ELSE LET d == BindingCheck(lm, am, MetaKeyDeviceID, "device_id_required", "device_id_mismatch")
         IN  IF d # "ok" THEN d
             ELSE BindingCheck(lm, am, MetaKeyUserID, "user_id_required", "user_id_mismatch")

\* allowed_data: the keys features and limits of the license metadata, or nothing.
NoResponseData == [present |-> FALSE, features |-> Absent, limits |-> Absent]

AllowedData(lm) ==
    IF LicenseMetaValid(lm) /\ (lm.features # Absent \/ lm.limits # Absent)
    THEN [present |-> TRUE, features |-> Float64(lm.features), limits |-> Float64(lm.limits)]
    ELSE NoResponseData

Outcome(err, valid, reason, spawn, data) ==
    [err |-> err, IsValid |-> valid, Reason |-> reason, spawn |-> spawn, ResponseData |-> data]

\* The mutant of ValidateOutcome: pgx.ErrNoRows is not recognised and is returned as
\* an error like every other lookup failure.
ValidateOutcomeNoRowsIsError(found, product, am, t) ==
    IF found.err # "none" THEN Outcome(TRUE, FALSE, "", "none", NoResponseData)
    ELSE IF found.lic.product_name # product
    THEN Outcome(FALSE, FALSE, "product_mismatch", "none", NoResponseData)
    ELSE IF found.lic.status # StatusActive
    THEN Outcome(FALSE, FALSE, found.lic.status, "none", NoResponseData)
    ELSE IF DateExpired(found.lic, t)
    THEN Outcome(FALSE, FALSE, "expired", "expire", NoResponseData)
    ELSE IF BindingsReason(found.lic.metadata, am) # "ok"
    THEN Outcome(FALSE, FALSE, BindingsReason(found.lic.metadata, am), "none", NoResponseData)
    ELSE Outcome(FALSE, TRUE, "valid", "enrich", AllowedData(found.lic.metadata))

\* The mutant of ValidateOutcome: the status is checked before the product.
ValidateOutcomeStatusFirst(found, product, am, t) ==
    IF found.err = "no_rows" THEN Outcome(FALSE, FALSE, "not_found", "none", NoResponseData)
    ELSE IF found.err # "none" THEN Outcome(TRUE, FALSE, "", "none", NoResponseData)
    ELSE IF found.lic.status # StatusActive
    THEN Outcome(FALSE, FALSE, found.lic.status, "none", NoResponseData)
    ELSE IF found.lic.product_name # product
    THEN Outcome(FALSE, FALSE, "product_mismatch", "none", NoResponseData)
    ELSE IF DateExpired(found.lic, t)
    THEN Outcome(FALSE, FALSE, "expired", "expire", NoResponseData)
    ELSE IF BindingsReason(found.lic.metadata, am) # "ok"
    THEN Outcome(FALSE, FALSE, BindingsReason(found.lic.metadata, am), "none", NoResponseData)
    ELSE Outcome(FALSE, TRUE, "valid", "enrich", AllowedData(found.lic.metadata))

\* The checks of ValidateLicense on the looked-up row, in the order of the code:
\* what is returned and which goroutine is started.
ValidateOutcome(found, product, am, t) ==
    IF found.err = "no_rows" THEN Outcome(FALSE, FALSE, "not_found", "none", NoResponseData)
    ELSE IF found.err # "none" THEN Outcome(TRUE, FALSE, "", "none", NoResponseData)
    ELSE IF found.lic.product_name # product
    THEN Outcome(FALSE, FALSE, "product_mismatch", "none", NoResponseData)
    ELSE IF found.lic.status # StatusActive
    THEN Outcome(FALSE, FALSE,
                 IF found.lic.status = StatusExpired THEN "expired" ELSE found.lic.status,
                 "none", NoResponseData)
    ELSE IF DateExpired(found.lic, t)
    THEN Outcome(FALSE, FALSE, "expired", "expire", NoResponseData)
    ELSE IF BindingsReason(found.lic.metadata, am) # "ok"
    THEN Outcome(FALSE, FALSE, BindingsReason(found.lic.metadata, am), "none", NoResponseData)
    ELSE Outcome(FALSE, TRUE, "valid", "enrich", AllowedData(found.lic.metadata))

\* updateData of the enrichment goroutine: last_validated_at, and last_ip when the
\* agent sent a non-empty ip_address.
EnrichTask(lic, am, t) ==
    [id |-> lic.id, currentMeta |-> lic.metadata, last_validated_at |-> JStr(ToString(t)),
     last_ip |-> IF AgentMetaValid(am) /\ IsStr(am.ip_address) /\ AsString(am.ip_address) # ""
                 THEN am.ip_address ELSE Absent]

NoCall ==
    [key |-> "", product |-> "", metadata |-> NilMeta, lookup |-> "", at |-> 0,
     License |-> NoLicense, err |-> FALSE, IsValid |-> FALSE, Reason |-> "",
     spawn |-> "none", ResponseData |-> NoResponseData]

\* The mutant of SpawnExpire: the lazy-expiration goroutine is never started.
SpawnExpireNever(o, lic) == expireTasks

\* go func(lId ...) { r.UpdateStatus(bgCtx, lId, license.StatusExpired) }
SpawnExpire(o, lic) ==
    IF o.spawn = "expire" THEN [expireTasks EXCEPT ![lic.id] = @ + 1] ELSE expireTasks

\* go func(lId, currentMeta, dataToUpdate ...) { ... r.UpdateMetadata(...) }
SpawnEnrich(o, lic, am, t) ==
    IF o.spawn = "enrich" THEN enrichTasks \cup {EnrichTask(lic, am, t)} ELSE enrichTasks

ValidateLicense(key, product, am, dbOk) ==
    LET found == FindByKey(key, dbOk)
        o == ValidateOutcome(found, product, am, now)
    IN  /\ o.spawn = "expire" => expireTasks[found.lic.id] < MaxTasks
        /\ o.spawn = "enrich" =>
               \/ EnrichTask(found.lic, am, now) \in enrichTasks
               \/ Cardinality(enrichTasks) < MaxTasks
        /\ call' = [key |-> key, product |-> product, metadata |-> am, lookup |-> found.err,
                    at |-> now, License |-> found.lic, err |-> o.err, IsValid |-> o.IsValid,
                    Reason |-> o.Reason, spawn |-> o.spawn, ResponseData |-> o.ResponseData]
        /\ expireTasks' = SpawnExpire(o, found.lic)
        /\ enrichTasks' = SpawnEnrich(o, found.lic, am, now)
        /\ UNCHANGED <<now, licenses, lastWrite, sweep, update>>

\* ValidateLicense called on its own, nothing else happening in the process.
ValidateCall(key, product, am, dbOk) ==
    ValidateLicense(key, product, am, dbOk) /\ UNCHANGED authVars

\* The lazy-expiration goroutine runs: one UpdateStatus(id, expired), its error logged.
LazyExpireRun(id, dbOk) ==
    /\ expireTasks[id] > 0
    /\ expireTasks' = [expireTasks EXCEPT ![id] = @ - 1]
    /\ lastWrite' = WriteRecord("lazy", id, StatusExpired, StoreCall(DetachedContext, dbOk))
    /\ licenses' = UpdateStatusRows(id, StatusExpired, StoreCall(DetachedContext, dbOk))
    /\ UNCHANGED <<now, call, enrichTasks, sweep, update, authVars>>

\* The mutant of MergedMeta: the update is merged into the object stored when the
\* goroutine runs.
MergedMetaOnStored(task) ==
    LET stored == licenses[task.id].metadata
        base == IF stored.kind = "object" THEN Decode(stored) ELSE EmptyObject
        stamped == [base EXCEPT !.last_validated_at = task.last_validated_at]
    IN  IF task.last_ip # Absent THEN [stamped EXCEPT !.last_ip = task.last_ip] ELSE stamped

\* The mutant of MergedMeta: the update is written without the object it was read from.
MergedMetaUpdateOnly(task) ==
    LET stamped == [EmptyObject EXCEPT !.last_validated_at = task.last_validated_at]
    IN  IF task.last_ip # Absent THEN [stamped EXCEPT !.last_ip = task.last_ip] ELSE stamped

\* mergedMetaMap of the enrichment goroutine: the object read by the validation (an
\* empty map when it was nil or did not unmarshal) with the update merged in.
MergedMeta(task) ==
    LET base == IF task.currentMeta.kind = "object" THEN Decode(task.currentMeta)
                ELSE EmptyObject
        stamped == [base EXCEPT !.last_validated_at = task.last_validated_at]
    IN  IF task.last_ip # Absent THEN [stamped EXCEPT !.last_ip = task.last_ip] ELSE stamped

\* Repository.UpdateMetadata(ctx, id, metadata): the metadata column of that row is
\* replaced by the blob given, nothing else.
UpdateMetadataRows(id, meta, dbOk) ==
    IF dbOk /\ id \in DOMAIN licenses
    THEN [licenses EXCEPT ![id].metadata = meta]
    ELSE licenses

\* The enrichment goroutine runs: the merged blob is written unless it equals the
\* blob the validation read; the error of the write is logged.
EnrichRun(task, dbOk) ==
    /\ task \in enrichTasks
    /\ enrichTasks' = enrichTasks \ {task}
    /\ licenses' = IF MergedMeta(task) # task.currentMeta
                   THEN UpdateMetadataRows(task.id, MergedMeta(task),
                                           StoreCall(DetachedContext, dbOk))
                   ELSE licenses
    /\ UNCHANGED <<now, call, expireTasks, lastWrite, sweep, update, authVars>>

Tick ==
    /\ now < MaxTime
    /\ now' = now + 1
    /\ UNCHANGED <<licenses, call, expireTasks, enrichTasks, lastWrite, sweep, update, authVars>>

---------------------------------------------------------------------------
\* Administrative operations.

\* CreateLicenseRequest as bound by the handler: expires_at, when given, is later
\* than the time of the request (binding "omitempty,gt").
CreateRequestOK(expires) == expires = NullTime \/ expires > now

\* The row LicenseService.CreateLicense builds and the INSERT completes: the status
\* is the request's initial_status or active, issued_at is stamped for an active
\* license, created_at is the column default NOW().
NewLicense(id, key, initialStatus, product, expires, meta) ==
    LET status == IF initialStatus # "" THEN initialStatus ELSE StatusActive
    IN  [id |-> id, license_key |-> key, status |-> status,
         product_name |-> product, expires_at |-> expires,
         issued_at |-> IF status = StatusActive THEN now ELSE NullTime,
         created_at |-> now, requested |-> initialStatus,
         metadata |-> meta]

\* license_key TEXT UNIQUE NOT NULL: the INSERT of a used key is refused (23505).
KeyTaken(key) == \E j \in DOMAIN licenses : licenses[j].license_key = key

\* The table after INSERT INTO licenses ... RETURNING id.
InsertLicense(row) ==
    [j \in DOMAIN licenses \cup {row.id} |-> IF j = row.id THEN row ELSE licenses[j]]

\* LicenseService.CreateLicense and LicenseRepository.Create: the row gets a fresh
\* id, and a used license_key violates the UNIQUE constraint.
CreateLicense(id, key, initialStatus, product, expires, meta) ==
    /\ id \in LicenseIds \ DOMAIN licenses
    /\ CreateRequestOK(expires)
    /\ ~KeyTaken(key)
    /\ licenses' = InsertLicense(NewLicense(id, key, initialStatus, product, expires, meta))
    /\ UNCHANGED <<now, call, expireTasks, enrichTasks, lastWrite, sweep, update, authVars>>

\* LicenseService.UpdateLicenseStatus: UpdateStatus with the status of the request.
UpdateLicenseStatus(id, newStatus, dbOk) ==
    /\ lastWrite' = WriteRecord("admin", id, newStatus, dbOk)
    /\ licenses' = UpdateStatusRows(id, newStatus, dbOk)
    /\ UNCHANGED <<now, call, expireTasks, enrichTasks, sweep, update, authVars>>

\* LicenseService.UpdateLicense up to its write: FindByID, then the fields of the
\* request that are given ("" , NullTime and NilMeta stand for a field not given)
\* are set on the row read; with nothing to change the call returns here.  A
\* missing row or a failed read returns an error and changes nothing.
UpdateLicenseRead(id, product, expires, meta) ==
    /\ update.pc = "idle"
    /\ id \in DOMAIN licenses
    /\ CreateRequestOK(expires)
    /\ LET cur == licenses[id]
           c1 == IF product # "" /\ cur.product_name # product
                 THEN [cur EXCEPT !.product_name = product] ELSE cur
           c2 == IF expires # NullTime /\ c1.expires_at # expires
                 THEN [c1 EXCEPT !.expires_at = expires] ELSE c1
           c3 == IF meta.kind # "nil" THEN [c2 EXCEPT !.metadata = meta] ELSE c2
           updated == c2 # cur \/ meta.kind # "nil"
       IN  update' = IF updated THEN [pc |-> "write", current |-> c3] ELSE NoUpdate
    /\ UNCHANGED <<now, licenses, call, expireTasks, enrichTasks, lastWrite, sweep, authVars>>

\* LicenseRepository.Update: UPDATE licenses SET status, product_name, metadata,
\* issued_at, expires_at ... WHERE id, with the values of the row as read.
UpdateLicenseWrite(dbOk) ==
    /\ update.pc = "write"
    /\ update' = NoUpdate
    /\ licenses' =
          IF dbOk /\ update.current.id \in DOMAIN licenses
          THEN [licenses EXCEPT ![update.current.id] =
                   [@ EXCEPT !.status = update.current.status,
                             !.product_name = update.current.product_name,
                             !.metadata = update.current.metadata,
                             !.issued_at = update.current.issued_at,
                             !.expires_at = update.current.expires_at]]
          ELSE licenses
    /\ UNCHANGED <<now, call, expireTasks, enrichTasks, lastWrite, sweep, authVars>>

---------------------------------------------------------------------------
\* Reconciliation sweeps: CheckAndExpireLicenses ("startup") and
\* LicenseExpireHandler.ProcessTask ("periodic").

Drivers == {"startup", "periodic"}

\* The page size of each driver, scaled down (500 and 1000 in the source).
StartupLimit == 2
PeriodicLimit == 2
Limit(d) == IF d = "startup" THEN StartupLimit ELSE PeriodicLimit

\* ORDER BY of each driver: id ASC, or expires_at ASC NULLS FIRST.
SortKey(d, id) == IF d = "startup" THEN id ELSE licenses[id].expires_at

ActiveIds == {id \in DOMAIN licenses : licenses[id].status = StatusActive}

\* The orders in which the SELECT may return the active rows: sorted by the key,
\* rows with equal keys in any order.
ListOrders(d) ==
    {s \in [1..Cardinality(ActiveIds) -> ActiveIds] :
        /\ \A i, j \in DOMAIN s : i # j => s[i] # s[j]
        /\ \A i, j \in DOMAIN s : i < j => SortKey(d, s[i]) <= SortKey(d, s[j])}

Min(a, b) == IF a < b THEN a ELSE b

\* LIMIT $n OFFSET $m of an ordered result: of each row as it is read, the columns
\* the sweep uses.
ListPage(order, offset, limit) ==
    [i \in 1..(IF Len(order) > offset THEN Min(limit, Len(order) - offset) ELSE 0) |->
        [id |-> order[offset + i], expires_at |-> licenses[order[offset + i]].expires_at]]

\* The locals of a sweep; examined is the set of the ids its loop has come to.
IdleSweep ==
    [pc |-> "idle", now |-> 0, offset |-> 0, total |-> 0, page |-> <<>>, i |-> 0,
     updatedCount |-> 0, err |-> "none", examined |-> {}]

\* The sweep is called: now := time.Now().UTC(), offset := 0.
SweepStart(d) ==
    /\ sweep[d].pc = "idle"
    /\ sweep' = [sweep EXCEPT ![d] = [IdleSweep EXCEPT !.pc = "count", !.now = now]]
    /\ UNCHANGED <<now, licenses, call, expireTasks, enrichTasks, lastWrite, update, authVars>>

\* List, first query: SELECT COUNT(*) ... WHERE status = 'active'.  No row at all
\* returns an empty page, which ends the loop.
SweepCount(d, dbOk) ==
    /\ sweep[d].pc = "count"
    /\ sweep' = [sweep EXCEPT ![d] =
                    IF ~dbOk THEN [@ EXCEPT !.pc = "done", !.err = "list_failed"]
                    ELSE IF Cardinality(ActiveIds) = 0
                    THEN [@ EXCEPT !.pc = "done", !.total = 0, !.page = <<>>]
                    ELSE [@ EXCEPT !.pc = "select", !.total = Cardinality(ActiveIds)]]
    /\ UNCHANGED <<now, licenses, call, expireTasks, enrichTasks, lastWrite, update, authVars>>

\* List, second query: the page at the current offset.  An empty page ends the loop.
SweepSelect(d, order, dbOk) ==
    /\ sweep[d].pc = "select"
    /\ order \in ListOrders(d)
    /\ LET page == ListPage(order, sweep[d].offset, Limit(d))
       IN  sweep' = [sweep EXCEPT ![d] =
                        IF ~dbOk THEN [@ EXCEPT !.pc = "done", !.err = "list_failed"]
                        ELSE IF Len(page) = 0 THEN [@ EXCEPT !.pc = "done", !.page = <<>>]
                        ELSE [@ EXCEPT !.pc = "rows", !.page = page, !.i = 1]]
    /\ UNCHANGED <<now, licenses, call, expireTasks, enrichTasks, lastWrite, update, authVars>>

\* The mutant of Overdue: a license without expires_at counts as overdue.
OverdueOrPerpetual(lic, t) == lic.expires_at = NullTime \/ lic.expires_at < t

\* lic.ExpiresAt.Valid && lic.ExpiresAt.Time.UTC().Before(now)
Overdue(lic, t) == lic.expires_at # NullTime /\ lic.expires_at < t

\* The mutant of AfterPage: the offset is not advanced after a full page.
AfterPageSameOffset(d, s) ==
    IF Len(s.page) < Limit(d) THEN [s EXCEPT !.pc = "done", !.page = <<>>, !.i = 0]
    ELSE [s EXCEPT !.pc = "count"]

\* After the last row of a page: stop on a short page, else advance the offset; the
\* periodic driver also stops when the offset has passed the reported total.
AfterPage(d, s) ==
    IF Len(s.page) < Limit(d) THEN [s EXCEPT !.pc = "done", !.page = <<>>, !.i = 0]
    ELSE IF d = "periodic" /\ s.offset + Limit(d) > s.total /\ s.total > 0
    THEN [s EXCEPT !.pc = "done", !.offset = @ + Limit(d), !.page = <<>>, !.i = 0]
    ELSE [s EXCEPT !.pc = "count", !.offset = @ + Limit(d)]

\* The mutant of SweepRow: a failed UpdateStatus is returned and ends the sweep.
SweepRowAborting(d, dbOk) ==
    /\ sweep[d].pc = "rows"
    /\ LET s == sweep[d]
           lic == s.page[s.i]
           due == Overdue(lic, s.now)
           failed == due /\ UpdateStatusResult(lic.id, StatusExpired, dbOk) # "none"
           counted == IF due /\ ~failed THEN [s EXCEPT !.updatedCount = @ + 1] ELSE s
           stepped == IF failed THEN [s EXCEPT !.pc = "done", !.err = "update_failed"]
                      ELSE IF s.i < Len(s.page) THEN [counted EXCEPT !.i = @ + 1]
                      ELSE AfterPage(d, counted)
       IN  /\ due \/ dbOk
           /\ sweep' = [sweep EXCEPT ![d] = [stepped EXCEPT !.examined = @ \cup {lic.id}]]
           /\ lastWrite' = IF due THEN WriteRecord(d, lic.id, StatusExpired, dbOk) ELSE lastWrite
           /\ licenses' = IF due THEN UpdateStatusRows(lic.id, StatusExpired, dbOk) ELSE licenses
    /\ UNCHANGED <<now, call, expireTasks, enrichTasks, update, authVars>>

\* One iteration of the loop over the page: an overdue row gets UpdateStatus(id,
\* expired), whose failure is logged and counted out; any other row is passed over.
SweepRow(d, dbOk) ==
    /\ sweep[d].pc = "rows"
    /\ LET s == sweep[d]
           lic == s.page[s.i]
           due == Overdue(lic, s.now)
           counted == IF due /\ UpdateStatusResult(lic.id, StatusExpired, dbOk) = "none"
                      THEN [s EXCEPT !.updatedCount = @ + 1] ELSE s
           stepped == IF s.i < Len(s.page) THEN [counted EXCEPT !.i = @ + 1]
                      ELSE AfterPage(d, counted)
       IN  /\ due \/ dbOk
           /\ sweep' = [sweep EXCEPT ![d] = [stepped EXCEPT !.examined = @ \cup {lic.id}]]
           /\ lastWrite' = IF due THEN WriteRecord(d, lic.id, StatusExpired, dbOk) ELSE lastWrite
           /\ licenses' = IF due THEN UpdateStatusRows(lic.id, StatusExpired, dbOk) ELSE licenses
    /\ UNCHANGED <<now, call, expireTasks, enrichTasks, update, authVars>>

\* The periodic task is scheduled again after a finished pass.
SweepAgain(d) ==
    /\ d = "periodic"
    /\ sweep[d].pc = "done"
    /\ sweep' = [sweep EXCEPT ![d] = IdleSweep]
    /\ UNCHANGED <<now, licenses, call, expireTasks, enrichTasks, lastWrite, update, authVars>>

\* A whole pass of a driver on a table nobody else writes to, as a function of the
\* table L, the last UpdateStatus record w and the reference time t.

\* WHERE status = 'active' on the table L.
ActiveIn(L) == {id \in DOMAIN L : L[id].status = StatusActive}

\* The orders in which the SELECT of driver d may return the active rows of L.
OrdersIn(d, L) ==
    {s \in [1..Cardinality(ActiveIn(L)) -> ActiveIn(L)] :
        /\ \A i, j \in DOMAIN s : i # j => s[i] # s[j]
        /\ \A i, j \in DOMAIN s :
              i < j => IF d = "startup" THEN s[i] <= s[j]
                       ELSE L[s[i]].expires_at <= L[s[j]].expires_at}

\* LIMIT $n OFFSET $m of an ordered result, as the ids of its rows.
PageIds(order, offset, limit) ==
    [i \in 1..(IF Len(order) > offset THEN Min(limit, Len(order) - offset) ELSE 0) |->
        order[offset + i]]

\* The loop over one page: the rows with expires_at set and before t, in page order.
DueIn(L, page, t) == SelectSeq(page, LAMBDA id : Overdue(L[id], t))

\* UpdateStatus(id, expired) for each of them, every call accepted by the store.
ExpireAll(L, due) ==
    [id \in DOMAIN L |->
        IF \E i \in DOMAIN due : due[i] = id THEN [L[id] EXCEPT !.status = StatusExpired]
        ELSE L[id]]

\* The record of the last UpdateStatus call after the page.
WriteAfter(d, w, due) ==
    IF due = <<>> THEN w
    ELSE [src |-> d, id |-> due[Len(due)], status |-> StatusExpired, dbOk |-> TRUE,
          before |-> StatusActive, err |-> "none"]

\* The for loop of CheckAndExpireLicenses ("startup") and of ProcessTask
\* ("periodic") from the given offset on: list, stop on an empty page, expire the
\* overdue rows of the page, stop on a short page, advance the offset; the periodic
\* driver also stops once the offset has passed the total of the last count.
RECURSIVE PassFrom(_, _, _, _, _)
PassFrom(d, L, w, t, offset) ==
    UNION {LET page == PageIds(order, offset, Limit(d))
               due == DueIn(L, page, t)
               done == [licenses |-> ExpireAll(L, due), lastWrite |-> WriteAfter(d, w, due)]
           IN  IF Len(page) = 0 THEN {[licenses |-> L, lastWrite |-> w]}
               ELSE IF Len(page) < Limit(d) THEN {done}
               ELSE IF d = "periodic" /\ offset + Limit(d) > Len(order) /\ Len(order) > 0
               THEN {done}
               ELSE PassFrom(d, done.licenses, done.lastWrite, t, offset + Limit(d)) :
           order \in OrdersIn(d, L)}

\* A driver runs from its first List to its return while nothing else touches the
\* table; the store accepts every call.
RunPass(d) ==
    /\ \A e \in Drivers : sweep[e].pc = "idle"
    /\ \E r \in PassFrom(d, licenses, lastWrite, now, 0) :
          /\ licenses' = r.licenses
          /\ lastWrite' = r.lastWrite
    /\ UNCHANGED <<now, call, expireTasks, enrichTasks, sweep, update, authVars>>

---------------------------------------------------------------------------
\* API keys: util.GenerateAPIKey, APIKeyRepository, APIKeyService.

\* A string is a sequence of symbols; "_" is the delimiter of the key format, every
\* other symbol stands for a run of characters without it.
Sep == "_"
SchemeTag == <<"lm">>

\* strings.SplitN(s, "_", n) for n > 0: at most n parts, the last one unsplit.
RECURSIVE SplitN(_, _)
SplitN(s, n) ==
    IF n = 1 \/ ~\E i \in 1..Len(s) : s[i] = Sep THEN <<s>>
    ELSE LET i == CHOOSE k \in 1..Len(s) : s[k] = Sep /\ \A j \in 1..(k - 1) : s[j] # Sep
         IN  <<SubSeq(s, 1, i - 1)>> \o SplitN(SubSeq(s, i + 1, Len(s)), n - 1)

\* sha256 of the full key, hex encoded: a value that names its input (no collisions).
HashAPIKey(fullKey) == <<"sha256", fullKey>>

\* generateRandomString: base64url text with "-" and "_" removed, so no delimiter.
\* The lengths 8 and 32 are scaled to one symbol.
RandomPrefixes == {<<"p1">>, <<"p2">>}
RandomSecrets == {<<"s1">>, <<"s2">>}

APIKeyPrefixLength == 8
APIKeySecretLength == 32

\* The characters of base64.URLEncoding: "A" and "B" stand for the 62 letters and
\* digits, "-" and "_" are the two others, "=" is the padding.
Base64Letters == {"A", "B"}
Base64Chars == Base64Letters \cup {"-", "_"}

\* byteLength := (length*3 + 3) / 4, and the length of the encoding of that many
\* bytes: 4 characters for every 3 bytes, the last group padded.
ByteLength(length) == (length * 3 + 3) \div 4
EncodedLen(n) == 4 * ((n + 2) \div 3)
DataLen(n) == (n * 8 + 5) \div 6

\* base64.URLEncoding.EncodeToString(b) over the outcomes of rand.Read for b of n
\* bytes: the first MaxVary characters range over the alphabet, the others are
\* letters.
Encodings(n) ==
    {[i \in 1..EncodedLen(n) |->
         IF i <= MaxVary THEN v[i] ELSE IF i <= DataLen(n) THEN "A" ELSE "="] :
       v \in [1..MaxVary -> Base64Chars]}

\* strings.ReplaceAll(str, c, "")
RECURSIVE ReplaceAll(_, _)
ReplaceAll(str, c) ==
    IF str = <<>> THEN <<>>
    ELSE IF Head(str) = c THEN ReplaceAll(Tail(str), c)
    ELSE <<Head(str)>> \o ReplaceAll(Tail(str), c)

\* The mutant of generateRandomString: the delimiter "_" is left in the string.
generateRandomStringKeepingDelimiter(length, str) ==
    LET stripped == ReplaceAll(str, "-")
    IN  IF Len(stripped) > length THEN SubSeq(stripped, 1, length) ELSE stripped

\* generateRandomString(length) for the encoding str of its random bytes: "-" and
\* "_" are removed, and what is left is cut to length when it is longer.
generateRandomString(length, str) ==
    LET stripped == ReplaceAll(ReplaceAll(str, "-"), "_")
    IN  IF Len(stripped) > length THEN SubSeq(stripped, 1, length) ELSE stripped

\* fmt.Sprintf("lm_%s_%s", prefix, secret) and its hash.
GenerateAPIKey(prefix, secret) ==
    LET fullKey == SchemeTag \o <<Sep>> \o prefix \o <<Sep>> \o secret
    IN  [fullKey |-> fullKey, prefix |-> prefix, keyHash |-> HashAPIKey(fullKey)]

NoKey == [id |-> 0, key_hash |-> <<>>, prefix |-> <<>>, is_enabled |-> FALSE,
          last_used_at |-> NullTime]

\* The mutant of FindByPrefix: WHERE prefix = $1, without AND is_enabled = TRUE.
FindByPrefixAnyState(prefix, dbOk) ==
    IF ~dbOk THEN [err |-> "db", key |-> NoKey]
    ELSE IF \E id \in DOMAIN apikeys : apikeys[id].prefix = prefix
    THEN [err |-> "none",
          key |-> apikeys[CHOOSE id \in DOMAIN apikeys : apikeys[id].prefix = prefix]]
    ELSE [err |-> "ErrAPIKeyNotFound", key |-> NoKey]

\* SELECT ... FROM api_keys WHERE prefix = $1 AND is_enabled = TRUE
FindByPrefix(prefix, dbOk) ==
    IF ~dbOk THEN [err |-> "db", key |-> NoKey]
    ELSE IF \E id \in DOMAIN apikeys : apikeys[id].prefix = prefix /\ apikeys[id].is_enabled
    THEN [err |-> "none",
          key |-> apikeys[CHOOSE id \in DOMAIN apikeys :
                             apikeys[id].prefix = prefix /\ apikeys[id].is_enabled]]
    ELSE [err |-> "ErrAPIKeyNotFound", key |-> NoKey]

\* key_hash VARCHAR(255) NOT NULL UNIQUE, prefix VARCHAR(16) NOT NULL UNIQUE: the
\* INSERT of a used prefix or hash is refused (23505).
APIKeyConflict(k) ==
    \E j \in DOMAIN apikeys : apikeys[j].prefix = k.prefix \/ apikeys[j].key_hash = k.keyHash

\* The table after INSERT INTO api_keys ... RETURNING id: the key stored enabled.
InsertAPIKey(id, k) ==
    [j \in DOMAIN apikeys \cup {id} |->
        IF j = id
        THEN [id |-> id, key_hash |-> k.keyHash, prefix |-> k.prefix,
              is_enabled |-> TRUE, last_used_at |-> NullTime]
        ELSE apikeys[j]]

\* APIKeyService.CreateAPIKey and APIKeyRepository.Create: a generated key is stored
\* enabled under a fresh id; a used prefix or key_hash violates a UNIQUE constraint
\* and nothing is stored.
CreateAPIKey(id, prefix, secret, dbOk) ==
    LET k == GenerateAPIKey(prefix, secret)
    IN  /\ id \notin DOMAIN apikeys
        /\ apikeys' = IF dbOk /\ ~APIKeyConflict(k) THEN InsertAPIKey(id, k) ELSE apikeys
        /\ UNCHANGED <<licenseVars, req, usedTasks, admin>>

\* APIKeyService.RevokeAPIKey and APIKeyRepository.Disable:
\* UPDATE api_keys SET is_enabled = FALSE WHERE id = $1
RevokeAPIKey(id, dbOk) ==
    /\ apikeys' = IF dbOk /\ id \in DOMAIN apikeys
                  THEN [apikeys EXCEPT ![id].is_enabled = FALSE]
                  ELSE apikeys
    /\ UNCHANGED <<licenseVars, req, usedTasks, admin>>

\* The mutant of UpdateLastUsedRun: a failed write is reported on the request.
UpdateLastUsedRunSurfaced(id, dbOk) ==
    /\ id \in usedTasks
    /\ usedTasks' = usedTasks \ {id}
    /\ apikeys' = IF dbOk /\ id \in DOMAIN apikeys
                  THEN [apikeys EXCEPT ![id].last_used_at = now]
                  ELSE apikeys
    /\ req' = IF dbOk THEN req
              ELSE [req EXCEPT !.aborted = TRUE,
                               !.err = [is |-> "ErrInternalServer", text |-> "last used"]]
    /\ UNCHANGED <<licenseVars, admin>>

\* The goroutine of the middleware runs: UPDATE api_keys SET last_used_at = $1
\* WHERE id = $2 with the time of the run, its error logged.
UpdateLastUsedRun(id, dbOk) ==
    /\ id \in usedTasks
    /\ usedTasks' = usedTasks \ {id}
    /\ apikeys' = IF StoreCall(DetachedContext, dbOk) /\ id \in DOMAIN apikeys
                  THEN [apikeys EXCEPT ![id].last_used_at = now]
                  ELSE apikeys
    /\ UNCHANGED <<licenseVars, req, admin>>

---------------------------------------------------------------------------
\* The validation endpoint: ErrorHandlerMiddleware, APIKeyAuthMiddleware, Validate.

\* An error value: the sentinel it wraps (errors.Is) and its text (err.Error()).
NoError == [is |-> "", text |-> ""]
ErrKeyRequired ==
    [is |-> "ErrUnauthorized", text |-> "unauthorized: API key required in X-API-Key header"]
ErrInvalidFormat == [is |-> "ErrUnauthorized", text |-> "unauthorized: invalid API key format"]
ErrKeyNotFound == [is |-> "ErrForbidden", text |-> "forbidden: invalid or disabled api key"]
ErrCheckingKey ==
    [is |-> "ErrInternalServer",
     text |-> "internal server error: checking api key: db error finding api key"]
\* The mutant of ErrHashMismatch: a wrong secret is reported as a failed authentication.
ErrHashMismatchUnauthorized ==
    [is |-> "ErrUnauthorized", text |-> "unauthorized: api key hash mismatch"]
ErrHashMismatch == [is |-> "ErrForbidden", text |-> "forbidden: invalid or disabled api key"]

\* The mutant of APIKeyAuth: the scheme tag is not checked.
APIKeyAuthAnyTag(h, dbOk) ==
    IF h = <<>> THEN [err |-> ErrKeyRequired, key |-> NoKey]
    ELSE LET parts == SplitN(h, 3)
         IN  IF Len(parts) < 3
             THEN [err |-> ErrInvalidFormat, key |-> NoKey]
             ELSE LET found == FindByPrefix(parts[2], dbOk)
                  IN  IF found.err = "ErrAPIKeyNotFound"
                      THEN [err |-> ErrKeyNotFound, key |-> NoKey]
                      ELSE IF found.err # "none" THEN [err |-> ErrCheckingKey, key |-> NoKey]
                      ELSE IF HashAPIKey(h) # found.key.key_hash
                      THEN [err |-> ErrHashMismatch, key |-> NoKey]
                      ELSE [err |-> NoError, key |-> found.key]

\* The checks of APIKeyAuthMiddleware on the header value: the error recorded with
\* c.Error, or none and the key record found.
APIKeyAuth(h, dbOk) ==
    IF h = <<>> THEN [err |-> ErrKeyRequired, key |-> NoKey]
    ELSE LET parts == SplitN(h, 3)
         IN  IF Len(parts) < 3 \/ parts[1] # SchemeTag
             THEN [err |-> ErrInvalidFormat, key |-> NoKey]
             ELSE LET found == FindByPrefix(parts[2], dbOk)
                  IN  IF found.err = "ErrAPIKeyNotFound"
                      THEN [err |-> ErrKeyNotFound, key |-> NoKey]
                      ELSE IF found.err # "none" THEN [err |-> ErrCheckingKey, key |-> NoKey]
                      ELSE IF HashAPIKey(h) # found.key.key_hash
                      THEN [err |-> ErrHashMismatch, key |-> NoKey]
                      ELSE [err |-> NoError, key |-> found.key]

\* The text of the driver's error for a failed round trip on context ctx: the
\* context's error when it is done, else that of the connection.
DriverError(ctx, dbOk) ==
    IF ContextDone(ctx) THEN "context canceled"
    ELSE IF ~dbOk THEN "connection refused"
    ELSE ""

\* fmt.Errorf("%w: checking api key: %v", ierr.ErrInternalServer, err): the text of
\* the error of the lookup, which ends with the driver's, is part of the message.
WithDriverError(err, ctx, dbOk) ==
    IF err = ErrCheckingKey
    THEN [err EXCEPT !.text = @ \o ": " \o DriverError(ctx, dbOk)]
    ELSE err

\* The mutant of Aborted: the failing branches return without c.Abort().
AbortedNever(err) == FALSE

\* c.Abort() in every failing branch of the middleware, c.Next() at its end.
Aborted(err) == err # NoError

\* licenseRoutes.POST("/validate", apiKeyAuthMiddleware, licenseHandler.Validate)
ValidateRoute == <<"APIKeyAuthMiddleware", "Validate">>

NoResponse == [status |-> 0, code |-> "", message |-> ""]

\* The response ErrorHandlerMiddleware writes for the last error of the request.
ErrorResponse(err) ==
    IF err.is = "ErrValidation"
    THEN [status |-> 400, code |-> "VALIDATION_ERROR", message |-> err.text]
    ELSE IF err.is \in {"ErrUnauthorized", "ErrInvalidCredentials", "ErrInvalidToken"}
    THEN [status |-> 401, code |-> "UNAUTHENTICATED",
          message |-> "Authentication required or failed."]
    ELSE IF err.is = "ErrForbidden"
    THEN [status |-> 403, code |-> "FORBIDDEN", message |-> "Access denied."]
    ELSE IF err.is \in {"ErrNotFound", "ErrUserNotFound"}
    THEN [status |-> 404, code |-> "NOT_FOUND",
          message |-> "The requested resource was not found."]
    ELSE IF err.is = "ErrConflict"
    THEN [status |-> 409, code |-> "CONFLICT", message |-> err.text]
    ELSE [status |-> 500, code |-> "INTERNAL_ERROR", message |-> err.text]

\* The request in the handler chain.  seen and lookupOk record what the lookup of
\* the middleware met: the row stored under the prefix, enabled or not, and whether
\* the store answered.
NoRequest ==
    [stage |-> "idle", index |-> 0, header |-> <<>>, key |-> "", product |-> "",
     aborted |-> FALSE, err |-> NoError, authRan |-> FALSE, seen |-> NoKey,
     lookupOk |-> TRUE, validated |-> FALSE, cancelled |-> FALSE, response |-> NoResponse]

RowByPrefix(prefix) ==
    IF \E id \in DOMAIN apikeys : apikeys[id].prefix = prefix
    THEN apikeys[CHOOSE id \in DOMAIN apikeys : apikeys[id].prefix = prefix]
    ELSE NoKey

\* A request to POST /api/v1/licenses/validate arrives; ErrorHandlerMiddleware
\* calls c.Next().
Receive(h, key, product) ==
    /\ req.stage = "idle"
    /\ req' = [NoRequest EXCEPT !.stage = "chain", !.index = 1, !.header = h,
                                !.key = key, !.product = product]
    /\ UNCHANGED <<licenseVars, apikeys, usedTasks, admin>>

InChain(name) ==
    /\ req.stage = "chain"
    /\ ~req.aborted
    /\ req.index <= Len(ValidateRoute)
    /\ ValidateRoute[req.index] = name

\* APIKeyAuthMiddleware runs: on a failure the error is recorded and the chain is
\* aborted; on success the last-used goroutine is started and the chain goes on.
APIKeyAuthMiddleware(dbOk) ==
    /\ InChain("APIKeyAuthMiddleware")
    /\ LET ok == StoreCall(RequestContext, dbOk)
           o == APIKeyAuth(req.header, ok)
           parts == SplitN(req.header, 3)
       IN  /\ req' = [req EXCEPT !.index = @ + 1,
                                 !.aborted = Aborted(o.err),
                                 !.err = WithDriverError(o.err, RequestContext, dbOk),
                                 !.authRan = TRUE,
                                 !.seen = IF Len(parts) >= 3 THEN RowByPrefix(parts[2]) ELSE NoKey,
                                 !.lookupOk = ok]
           /\ usedTasks' = IF o.err = NoError THEN usedTasks \cup {o.key.id} ELSE usedTasks
    /\ UNCHANGED <<licenseVars, apikeys, admin>>

\* LicenseHandler.Validate runs: the request goes to LicenseService.ValidateLicense;
\* a result is answered with 200, an error is left to ErrorHandlerMiddleware.
Validate(dbOk) ==
    /\ InChain("Validate")
    /\ ValidateLicense(req.key, req.product, NilMeta, StoreCall(RequestContext, dbOk))
    /\ req' = [req EXCEPT !.index = @ + 1,
                          !.validated = TRUE,
                          !.err = IF StoreCall(RequestContext, dbOk) THEN req.err
                                  ELSE [is |-> "ErrInternalServer", text |-> "internal server error"],
                          !.response = IF StoreCall(RequestContext, dbOk)
                                       THEN [status |-> 200, code |-> "", message |-> ""]
                                       ELSE NoResponse]
    /\ UNCHANGED <<apikeys, usedTasks, admin>>

\* ErrorHandlerMiddleware after c.Next() has returned: with an error recorded, the
\* response is that of the last error.
ErrorHandlerMiddleware ==
    /\ req.stage = "chain"
    /\ req.aborted \/ req.index > Len(ValidateRoute)
    /\ req' = [req EXCEPT !.stage = "done",
                          !.response = IF req.err # NoError THEN ErrorResponse(req.err)
                                       ELSE req.response]
    /\ UNCHANGED <<licenseVars, apikeys, usedTasks, admin>>

\* The client goes away, or the deadline of the request passes, while the request
\* is in the chain: its context is done from now on.
CancelRequest ==
    /\ req.stage = "chain"
    /\ ~req.cancelled
    /\ req' = [req EXCEPT !.cancelled = TRUE]
    /\ UNCHANGED <<licenseVars, apikeys, usedTasks, admin>>

\* The response has been sent.
Finish ==
    /\ req.stage = "done"
    /\ req' = NoRequest
    /\ UNCHANGED <<licenseVars, apikeys, usedTasks, admin>>

\* No administrative request has been answered yet.  cause records why the store
\* refused the write of the request: "duplicate" for a UNIQUE violation, "store"
\* for any other failure.
NoAdmin == [op |-> "", cause |-> "", err |-> NoError, response |-> NoResponse]

---------------------------------------------------------------------------
\* The administrative license endpoints.

\* The error of LicenseService.CreateLicense: the failure of LicenseRepository.Create
\* wrapped with %w.  The repository builds the duplicate-key error with fmt.Errorf
\* and no sentinel; a store failure wraps the driver's error.
CreateLicenseError(key, dbOk) ==
    IF ~dbOk
    THEN [is |-> "",
          text |-> "repository error during license creation: database error on create license"]
    ELSE IF KeyTaken(key)
    THEN [is |-> "",
          text |-> "repository error during license creation: license key already exists"]
    ELSE NoError

\* What LicenseHandler.Create answers: 201 with the license, or 500 with the same
\* body for every error of the service that is not pgx.ErrNoRows.
CreateResponse(err) ==
    IF err = NoError THEN [status |-> 201, code |-> "", message |-> ""]
    ELSE [status |-> 500, code |-> "", message |-> "Failed to create license"]

\* LicenseHandler.Create: POST /licenses with a bound request; key is the value
\* uuid.NewString() returns.
Create(id, key, initialStatus, product, expires, meta, dbOk) ==
    LET err == CreateLicenseError(key, dbOk)
    IN  /\ id \in LicenseIds \ DOMAIN licenses
        /\ CreateRequestOK(expires)
        /\ licenses' = IF err = NoError
                       THEN InsertLicense(NewLicense(id, key, initialStatus, product,
                                                     expires, meta))
                       ELSE licenses
        /\ admin' = [op |-> "Create",
                     cause |-> IF ~dbOk THEN "store" ELSE IF KeyTaken(key) THEN "duplicate" ELSE "",
                     err |-> err, response |-> CreateResponse(err)]
        /\ UNCHANGED <<now, call, expireTasks, enrichTasks, lastWrite, sweep, update,
                       apikeys, req, usedTasks>>

\* The error of APIKeyService.CreateAPIKey: the failure of APIKeyRepository.Create
\* wrapped with %w.  The repository builds the constraint-violation error with
\* fmt.Errorf and no sentinel; a store failure wraps the driver's error.
CreateAPIKeyError(k, dbOk) ==
    IF ~dbOk
    THEN [is |-> "",
          text |-> "repository error creating api key: db error creating api key"]
    ELSE IF APIKeyConflict(k)
    THEN [is |-> "",
          text |-> "repository error creating api key: api key constraint violation"]
    ELSE NoError

\* APIKeyHandler.Create: POST /apikeys with a bound request; prefix and secret are
\* what generateRandomString returns.  An error of the service goes to
\* ErrorHandlerMiddleware through c.Error.
APIKeyCreate(id, prefix, secret, dbOk) ==
    LET k == GenerateAPIKey(prefix, secret)
        err == CreateAPIKeyError(k, dbOk)
    IN  /\ id \notin DOMAIN apikeys
        /\ apikeys' = IF err = NoError THEN InsertAPIKey(id, k) ELSE apikeys
        /\ admin' = [op |-> "APIKeyCreate",
                     cause |-> IF ~dbOk THEN "store"
                               ELSE IF APIKeyConflict(k) THEN "duplicate" ELSE "",
                     err |-> err,
                     response |-> IF err = NoError
                                  THEN [status |-> 201, code |-> "", message |-> ""]
                                  ELSE ErrorResponse(err)]
        /\ UNCHANGED <<licenseVars, req, usedTasks>>

KeyIds == 1..MaxKeys
NoKeys == [id \in {} |-> NoKey]
AuthIdle ==
    /\ apikeys = NoKeys
    /\ req = NoRequest
    /\ usedTasks = {}
    /\ admin = NoAdmin

---------------------------------------------------------------------------
\* Specifications.

EmptyStore == [id \in {} |-> NoLicense]

Init ==
    /\ now = 1
    /\ licenses = EmptyStore
    /\ call = NoCall
    /\ expireTasks = [id \in LicenseIds |-> 0]
    /\ enrichTasks = {}
    /\ lastWrite = NoWrite
    /\ sweep = [d \in Drivers |-> IdleSweep]
    /\ update = NoUpdate
    /\ AuthIdle

KeyOf(id) == "K" \o ToString(id)

\* The tables a process may find: for each id of I, a row with one of the statuses,
\* products, expiry dates and metadata given, created as pending at time 1 and moved
\* to its status since.
Stores(I, statuses, products, expiries, metas) ==
    {[id \in I |-> [id |-> id, license_key |-> KeyOf(id), status |-> c[id][1],
                    product_name |-> c[id][2], expires_at |-> c[id][3],
                    issued_at |-> NullTime, created_at |-> 1,
                    requested |-> StatusPending, metadata |-> c[id][4]]] :
        c \in [I -> statuses \X products \X expiries \X metas]}

\* The sweeps alone, on a healthy store: the process finds a table of active and
\* pending licenses, some overdue, and each driver pages through the active ones.
InitSweep ==
    /\ now \in Times
    /\ \E n \in 0..MaxLicenses :
          licenses \in Stores(1..n, {StatusActive, StatusPending}, {"Foo"},
                              {NullTime} \cup Times, {NilMeta})
    /\ call = NoCall
    /\ expireTasks = [id \in LicenseIds |-> 0]
    /\ enrichTasks = {}
    /\ lastWrite = NoWrite
    /\ sweep = [d \in Drivers |-> IdleSweep]
    /\ update = NoUpdate
    /\ AuthIdle

NextSweep ==
    \/ \E d \in Drivers : SweepStart(d)
    \/ \E d \in Drivers : SweepCount(d, TRUE)
    \/ \E d \in Drivers : \E order \in ListOrders(d) : SweepSelect(d, order, TRUE)
    \/ \E d \in Drivers : SweepRow(d, TRUE)

SpecSweep == InitSweep /\ [][NextSweep]_vars

\* Whole passes of the two drivers, one after the other in any order and at any
\* time, on the tables of SpecSweep.
NextPasses ==
    \/ Tick
    \/ \E d \in Drivers : RunPass(d)

SpecPasses == InitSweep /\ [][NextPasses]_vars

\* The sweeps on a store that may fail any round trip: the count and the select of
\* a listing, and the status update of a row.
InitSweepFaults ==
    /\ now = MaxTime
    /\ \E n \in 0..MaxLicenses :
          licenses \in Stores(1..n, {StatusActive}, {"Foo"}, {NullTime, 1}, {NilMeta})
    /\ call = NoCall
    /\ expireTasks = [id \in LicenseIds |-> 0]
    /\ enrichTasks = {}
    /\ lastWrite = NoWrite
    /\ sweep = [d \in Drivers |-> IdleSweep]
    /\ update = NoUpdate
    /\ AuthIdle

NextSweepFaults ==
    \/ \E d \in Drivers : SweepStart(d)
    \/ \E d \in Drivers, dbOk \in BOOLEAN : SweepCount(d, dbOk)
    \/ \E d \in Drivers, dbOk \in BOOLEAN :
          \E order \in ListOrders(d) : SweepSelect(d, order, dbOk)
    \/ \E d \in Drivers, dbOk \in BOOLEAN : SweepRow(d, dbOk)

SpecSweepFaults == InitSweepFaults /\ [][NextSweepFaults]_vars

\* The sweeps among other writers: while a sweep pages through the table,
\* administrators create licenses and set expired ones active again; the table
\* holds at most MaxLicenses rows and one driver runs at a time.  Each step of a
\* running sweep is eventually taken.
InitSweepRace ==
    /\ now = MaxTime
    /\ \E n \in 0..(MaxLicenses - 1) :
          licenses \in Stores(1..n, {StatusActive}, {"Foo"}, {1}, {NilMeta})
    /\ call = NoCall
    /\ expireTasks = [id \in LicenseIds |-> 0]
    /\ enrichTasks = {}
    /\ lastWrite = NoWrite
    /\ sweep = [d \in Drivers |-> IdleSweep]
    /\ update = NoUpdate
    /\ AuthIdle

NextSweepRace ==
    \/ \E d \in Drivers :
          /\ \A e \in Drivers \ {d} : sweep[e].pc \in {"idle", "done"}
          /\ SweepStart(d)
    \/ \E d \in Drivers : SweepCount(d, TRUE)
    \/ \E d \in Drivers : \E order \in ListOrders(d) : SweepSelect(d, order, TRUE)
    \/ \E d \in Drivers : SweepRow(d, TRUE)
    \/ SweepAgain("periodic")
    \/ \E id \in LicenseIds : CreateLicense(id, KeyOf(id), "", "Foo", NullTime, NilMeta)
    \/ \E id \in DOMAIN licenses :
          licenses[id].status = StatusExpired /\ UpdateLicenseStatus(id, StatusActive, TRUE)

SpecSweepRaceFair ==
    /\ InitSweepRace
    /\ [][NextSweepRace]_vars
    /\ \A d \in Drivers :
          /\ WF_vars(SweepCount(d, TRUE))
          /\ WF_vars(\E order \in ListOrders(d) : SweepSelect(d, order, TRUE))
          /\ WF_vars(SweepRow(d, TRUE))

\* The server process as main starts it: the HTTP server serves the administrative
\* routes, and RunWorkers registers the periodic expiration task with the scheduler
\* and runs its handler.  main starts nothing else, and the process keeps running.
NextServer ==
    \/ Tick
    \/ \E id \in LicenseIds, expires \in {NullTime, 2} :
          Create(id, KeyOf(id), "", "Foo", expires, NilMeta, TRUE)
    \/ SweepStart("periodic")
    \/ SweepCount("periodic", TRUE)
    \/ \E order \in ListOrders("periodic") : SweepSelect("periodic", order, TRUE)
    \/ SweepRow("periodic", TRUE)
    \/ SweepAgain("periodic")

SpecServerFair == Init /\ [][NextServer]_vars /\ WF_vars(NextServer)

\* The administration of API keys on a store that may fail: keys are created with
\* any prefix and secret the generator can return, a used prefix included, and
\* revoked.
NextKeys ==
    \/ \E id \in 1..(MaxKeys + 2), prefix \in RandomPrefixes, secret \in RandomSecrets,
          dbOk \in BOOLEAN : APIKeyCreate(id, prefix, secret, dbOk)
    \/ \E id \in 1..(MaxKeys + 2), dbOk \in BOOLEAN : RevokeAPIKey(id, dbOk)

SpecKeys == Init /\ [][NextKeys]_vars

\* The metadata a license may carry and an agent may send.
ObjectMeta(device, user, ip) ==
    [EmptyObject EXCEPT !.device_id = device, !.user_id = user, !.ip_address = ip]

LicenseMetas ==
    {NilMeta, NonObjectMeta,
     ObjectMeta(JStr(""), Absent, Absent), ObjectMeta(JNum, Absent, Absent),
     [EmptyObject EXCEPT !.features = JStr("pro"), !.limits = JBig, !.note = JStr("n")],
     [EmptyObject EXCEPT !.device_id = JStr("D1"), !.limits = JNum,
                         !.last_ip = JStr("10.0.0.9")]}
    \cup {ObjectMeta(d, u, Absent) : d \in {Absent, JStr("D1")}, u \in {Absent, JStr("U1")}}

AgentMetas ==
    {NilMeta, NonObjectMeta, ObjectMeta(Absent, Absent, JStr("10.0.0.1")),
     ObjectMeta(JNum, JStr("U1"), Absent)}
    \cup {ObjectMeta(d, u, Absent) : d \in {Absent, JStr(""), JStr("D1"), JStr("D2")},
                                     u \in {Absent, JStr("U1"), JStr("U2")}}

\* The result of a validation is handed to the caller.
Return ==
    /\ call # NoCall
    /\ call' = NoCall
    /\ UNCHANGED <<now, licenses, expireTasks, enrichTasks, lastWrite, sweep, update, authVars>>

\* The Validator on one stored license: any status, product, expiry date and
\* metadata, at any time, validated with any request, its goroutines running
\* whenever they are scheduled.
InitValidate ==
    /\ now \in Times
    /\ \E n \in 0..1 :
          licenses \in Stores(1..n, Statuses, {"Foo"}, {NullTime} \cup Times, LicenseMetas)
    /\ call = NoCall
    /\ expireTasks = [id \in LicenseIds |-> 0]
    /\ enrichTasks = {}
    /\ lastWrite = NoWrite
    /\ sweep = [d \in Drivers |-> IdleSweep]
    /\ update = NoUpdate
    /\ AuthIdle

NextValidate ==
    \/ \E product \in Products, am \in AgentMetas :
          call = NoCall /\ ValidateCall(KeyOf(1), product, am, TRUE)
    \/ \E product \in Products :
          call = NoCall /\ ValidateCall(KeyOf(MaxLicenses + 1), product, NilMeta, TRUE)
    \/ \E key \in {KeyOf(1), KeyOf(MaxLicenses + 1)} :
          call = NoCall /\ ValidateCall(key, "Foo", NilMeta, FALSE)
    \/ Return
    \/ \E id \in LicenseIds, dbOk \in BOOLEAN : LazyExpireRun(id, dbOk)
    \/ \E task \in enrichTasks, dbOk \in BOOLEAN : EnrichRun(task, dbOk)

SpecValidate == InitValidate /\ [][NextValidate]_vars

---------------------------------------------------------------------------
\* Claims.

\* The three sources of UpdateStatus(id, expired) racing on a table of active
\* licenses: validations of overdue licenses, which start the lazy goroutine, and
\* both sweeps.  The store may refuse the write of a goroutine.
InitExpire ==
    /\ now = MaxTime
    /\ \E n \in 1..MaxRacing :
          licenses \in Stores(1..n, {StatusActive}, {"Foo"}, {NullTime, 1}, {NilMeta})
    /\ call = NoCall
    /\ expireTasks = [id \in LicenseIds |-> 0]
    /\ enrichTasks = {}
    /\ lastWrite = NoWrite
    /\ sweep = [d \in Drivers |-> IdleSweep]
    /\ update = NoUpdate
    /\ AuthIdle

NextExpire ==
    \/ \E id \in DOMAIN licenses :
          /\ call = NoCall
          /\ DateExpired(licenses[id], now)
          /\ ValidateCall(KeyOf(id), "Foo", NilMeta, TRUE)
    \/ Return
    \/ \E id \in LicenseIds, dbOk \in BOOLEAN : LazyExpireRun(id, dbOk)
    \/ \E d \in Drivers : SweepStart(d)
    \/ \E d \in Drivers : SweepCount(d, TRUE)
    \/ \E d \in Drivers : \E order \in ListOrders(d) : SweepSelect(d, order, TRUE)
    \/ \E d \in Drivers : SweepRow(d, TRUE)

SpecExpire == InitExpire /\ [][NextExpire]_vars

\* The lazy path under fair scheduling: licenses are validated after their
\* expires_at while time passes; every started goroutine is eventually run and the
\* store accepts its write.
InitLazy ==
    /\ now = 1
    /\ \E n \in 1..MaxRacing :
          licenses \in Stores(1..n, {StatusActive, StatusInactive}, {"Foo"}, {NullTime} \cup Times, {NilMeta})
    /\ call = NoCall
    /\ expireTasks = [id \in LicenseIds |-> 0]
    /\ enrichTasks = {}
    /\ lastWrite = NoWrite
    /\ sweep = [d \in Drivers |-> IdleSweep]
    /\ update = NoUpdate
    /\ AuthIdle

NextLazy ==
    \/ Tick
    \/ \E id \in DOMAIN licenses, product \in Products :
          /\ call = NoCall
          /\ DateExpired(licenses[id], now)
          /\ ValidateCall(KeyOf(id), product, NilMeta, TRUE)
    \/ Return
    \/ \E id \in LicenseIds : LazyExpireRun(id, TRUE)

SpecLazyFair ==
    /\ InitLazy
    /\ [][NextLazy]_vars
    /\ \A id \in LicenseIds : WF_vars(LazyExpireRun(id, TRUE))

\* The header values a caller may present: none, too few segments, a wrong scheme
\* tag, a further delimiter in the secret, and every key the service can generate.
Headers ==
    {<<>>, <<"lm">>, <<"lm", Sep, "p1">>, <<"xx", Sep, "p1", Sep, "s1">>,
     <<"lm", Sep, "p1", Sep, "s1", Sep, "s2">>}
    \cup {GenerateAPIKey(p, s).fullKey : p \in RandomPrefixes, s \in RandomSecrets}

\* API-key authentication in service: an administrator creates and revokes API
\* keys while agents send validation requests with any header; any store round trip
\* of the middleware may fail.  The license table is empty.
InitAuth ==
    /\ now = MaxTime
    /\ licenses = EmptyStore
    /\ call = NoCall
    /\ expireTasks = [id \in LicenseIds |-> 0]
    /\ enrichTasks = {}
    /\ lastWrite = NoWrite
    /\ sweep = [d \in Drivers |-> IdleSweep]
    /\ update = NoUpdate
    /\ AuthIdle

NextAuth ==
    \/ \E id \in KeyIds, prefix \in RandomPrefixes, secret \in RandomSecrets, dbOk \in BOOLEAN :
          id = Cardinality(DOMAIN apikeys) + 1 /\ CreateAPIKey(id, prefix, secret, dbOk)
    \/ \E id \in KeyIds, dbOk \in BOOLEAN : RevokeAPIKey(id, dbOk)
    \/ \E h \in Headers : Receive(h, KeyOf(1), "Foo")
    \/ \E dbOk \in BOOLEAN : APIKeyAuthMiddleware(dbOk)
    \/ \E dbOk \in BOOLEAN : Validate(dbOk)
    \/ ErrorHandlerMiddleware
    \/ Finish
    \/ \E id \in KeyIds : UpdateLastUsedRun(id, TRUE)

\* The validation endpoint in front of a stored license, overdue or not: agents
\* present a created key, a wrong secret, an unknown prefix or no header at all, and
\* the goroutines of the Validator run.
InitEndpoint ==
    /\ now = MaxTime
    /\ licenses \in Stores({1}, {StatusActive}, {"Foo"}, {NullTime, 1}, {NilMeta})
    /\ call = NoCall
    /\ expireTasks = [id \in LicenseIds |-> 0]
    /\ enrichTasks = {}
    /\ lastWrite = NoWrite
    /\ sweep = [d \in Drivers |-> IdleSweep]
    /\ update = NoUpdate
    /\ AuthIdle

NextEndpoint ==
    \/ \E secret \in RandomSecrets : CreateAPIKey(1, <<"p1">>, secret, TRUE)
    \/ RevokeAPIKey(1, TRUE)
    \/ \E h \in {<<>>} \cup {GenerateAPIKey(p, <<"s1">>).fullKey : p \in RandomPrefixes} :
          Receive(h, KeyOf(1), "Foo")
    \/ \E dbOk \in BOOLEAN : APIKeyAuthMiddleware(dbOk)
    \/ \E dbOk \in BOOLEAN : Validate(dbOk)
    \/ ErrorHandlerMiddleware
    \/ Finish
    \/ \E dbOk \in BOOLEAN : UpdateLastUsedRun(1, dbOk)
    \/ \E id \in LicenseIds, dbOk \in BOOLEAN : LazyExpireRun(id, dbOk)
    \/ \E task \in enrichTasks, dbOk \in BOOLEAN : EnrichRun(task, dbOk)

SpecEndpoint == InitEndpoint /\ [][NextEndpoint]_vars

\* The validation endpoint with requests that are cancelled at any point of the
\* chain, on a healthy store, every started goroutine being eventually run.
NextCancel ==
    \/ \E secret \in RandomSecrets : CreateAPIKey(1, <<"p1">>, secret, TRUE)
    \/ \E h \in {<<>>} \cup {GenerateAPIKey(<<"p1">>, s).fullKey : s \in RandomSecrets} :
          Receive(h, KeyOf(1), "Foo")
    \/ CancelRequest
    \/ APIKeyAuthMiddleware(TRUE)
    \/ Validate(TRUE)
    \/ ErrorHandlerMiddleware
    \/ Finish
    \/ UpdateLastUsedRun(1, TRUE)
    \/ \E id \in LicenseIds : LazyExpireRun(id, TRUE)
    \/ \E task \in enrichTasks : EnrichRun(task, TRUE)

SpecCancelFair ==
    /\ InitEndpoint
    /\ [][NextCancel]_vars
    /\ WF_vars(UpdateLastUsedRun(1, TRUE))
    /\ \A id \in LicenseIds : WF_vars(LazyExpireRun(id, TRUE))
    /\ WF_vars(\E task \in enrichTasks : EnrichRun(task, TRUE))

SpecAuth == InitAuth /\ [][NextAuth]_vars

\* The generation of API keys over the outcomes of the random source: every key
\* that is created has the prefix and the secret generateRandomString returns.
NextKeyGen ==
    \/ \E id \in 1..(MaxKeys + 1),
          e1 \in Encodings(ByteLength(APIKeyPrefixLength)),
          e2 \in Encodings(ByteLength(APIKeySecretLength)) :
          APIKeyCreate(id, generateRandomString(APIKeyPrefixLength, e1),
                       generateRandomString(APIKeySecretLength, e2), TRUE)
    \/ \E id \in 1..(MaxKeys + 1) : RevokeAPIKey(id, TRUE)

SpecKeyGen == Init /\ [][NextKeyGen]_vars

\* Issuance and use of API keys: keys are created over the outcomes of the random
\* source (for the secret, those that vary in its first character) and revoked, and
\* agents present the full keys that were returned, each request passing through
\* the handler chain; the store answers every call.
NextRoundTrip ==
    \/ \E id \in 1..(MaxKeys + 1),
          e1 \in Encodings(ByteLength(APIKeyPrefixLength)),
          e2 \in {e \in Encodings(ByteLength(APIKeySecretLength)) : e[2] = "A"} :
          APIKeyCreate(id, generateRandomString(APIKeyPrefixLength, e1),
                       generateRandomString(APIKeySecretLength, e2), TRUE)
    \/ \E id \in 1..(MaxKeys + 1) : RevokeAPIKey(id, TRUE)
    \/ \E id \in DOMAIN apikeys : Receive(apikeys[id].key_hash[2], KeyOf(1), "Foo")
    \/ APIKeyAuthMiddleware(TRUE)
    \/ Validate(TRUE)
    \/ ErrorHandlerMiddleware
    \/ Finish
    \/ \E id \in 1..(MaxKeys + 1) : UpdateLastUsedRun(id, TRUE)

SpecRoundTrip == Init /\ [][NextRoundTrip]_vars

\* The validation endpoint on a store whose round trips fail in more than one way:
\* the connection fails, or the request is cancelled before the round trip.
NextErrors ==
    \/ \E secret \in RandomSecrets : CreateAPIKey(1, <<"p1">>, secret, TRUE)
    \/ \E h \in {<<>>} \cup {GenerateAPIKey(p, <<"s1">>).fullKey : p \in RandomPrefixes} :
          Receive(h, KeyOf(1), "Foo")
    \/ CancelRequest
    \/ \E dbOk \in BOOLEAN : APIKeyAuthMiddleware(dbOk)
    \/ \E dbOk \in BOOLEAN : Validate(dbOk)
    \/ ErrorHandlerMiddleware
    \/ Finish
    \/ UpdateLastUsedRun(1, TRUE)
    \/ \E id \in LicenseIds : LazyExpireRun(id, TRUE)
    \/ \E task \in enrichTasks : EnrichRun(task, TRUE)

SpecErrors == InitEndpoint /\ [][NextErrors]_vars

\* The life of licenses from an empty table: administrators create them in any
\* status, change their status and their fields, agents validate them once they
\* are overdue, the periodic sweep runs and time passes; the store accepts every
\* write.
NextLifecycle ==
    \/ Tick
    \/ \E initialStatus \in {"", StatusPending, StatusActive}, expires \in {NullTime, 2} :
          CreateLicense(1, KeyOf(1), initialStatus, "Foo", expires, NilMeta)
    \/ \E id \in DOMAIN licenses, newStatus \in Statuses : UpdateLicenseStatus(id, newStatus, TRUE)
    \/ \E id \in DOMAIN licenses, expires \in {NullTime, MaxTime} :
          UpdateLicenseRead(id, "Bar", expires, NilMeta)
    \/ UpdateLicenseWrite(TRUE)
    \/ \E id \in DOMAIN licenses :
          /\ call = NoCall
          /\ DateExpired(licenses[id], now)
          /\ expireTasks[id] = 0
          /\ ValidateCall(KeyOf(id), licenses[id].product_name, NilMeta, TRUE)
    \/ Return
    \/ \E id \in LicenseIds : LazyExpireRun(id, TRUE)
    \/ SweepStart("periodic")
    \/ SweepCount("periodic", TRUE)
    \/ \E order \in ListOrders("periodic") : SweepSelect("periodic", order, TRUE)
    \/ SweepRow("periodic", TRUE)

SpecLifecycle == Init /\ [][NextLifecycle]_vars

\* Repeated validations of one active license while time passes: the license is
\* unbound or bound to a device, perpetual or expiring; agents validate it with and
\* without an ip_address; the detached goroutines run in any order, after any
\* number of later validations, and the store accepts their writes.
EnrichMetas ==
    {NilMeta, NonObjectMeta,
     [EmptyObject EXCEPT !.features = JStr("pro"), !.limits = JBig, !.note = JStr("n")],
     [EmptyObject EXCEPT !.device_id = JStr("D1"), !.limits = JNum,
                         !.last_ip = JStr("10.0.0.9")]}

EnrichAgents ==
    {NilMeta, ObjectMeta(JStr("D1"), Absent, Absent),
     ObjectMeta(JStr("D1"), Absent, JStr("10.0.0.1"))}

InitEnrich ==
    /\ now = 1
    /\ licenses \in Stores({1}, {StatusActive}, {"Foo"}, {NullTime, 2}, EnrichMetas)
    /\ call = NoCall
    /\ expireTasks = [id \in LicenseIds |-> 0]
    /\ enrichTasks = {}
    /\ lastWrite = NoWrite
    /\ sweep = [d \in Drivers |-> IdleSweep]
    /\ update = NoUpdate
    /\ AuthIdle

NextEnrich ==
    \/ Tick
    \/ \E am \in EnrichAgents : call = NoCall /\ ValidateCall(KeyOf(1), "Foo", am, TRUE)
    \/ Return
    \/ \E id \in LicenseIds : LazyExpireRun(id, TRUE)
    \/ \E task \in enrichTasks : EnrichRun(task, TRUE)

SpecEnrich == InitEnrich /\ [][NextEnrich]_vars

\* Successful validations of one active perpetual license racing with an
\* administrator who replaces its metadata (bindings, features, limits): the
\* enrichment goroutines run whenever they are scheduled and the store accepts
\* every write.  Every number stored is one a float64 holds exactly.
AdminMetas ==
    {[EmptyObject EXCEPT !.device_id = JStr("D1"), !.user_id = JStr("U1")],
     [EmptyObject EXCEPT !.features = JStr("pro"), !.limits = JNum]}

InitEnrichRace ==
    /\ now = 1
    /\ licenses \in Stores({1}, {StatusActive}, {"Foo"}, {NullTime},
                            {[EmptyObject EXCEPT !.features = JStr("basic")]})
    /\ call = NoCall
    /\ expireTasks = [id \in LicenseIds |-> 0]
    /\ enrichTasks = {}
    /\ lastWrite = NoWrite
    /\ sweep = [d \in Drivers |-> IdleSweep]
    /\ update = NoUpdate
    /\ AuthIdle

NextEnrichRace ==
    \/ Tick
    \/ \E am \in {ObjectMeta(JStr("D1"), JStr("U1"), Absent),
                   ObjectMeta(JStr("D1"), JStr("U1"), JStr("10.0.0.1"))} :
          call = NoCall /\ ValidateCall(KeyOf(1), "Foo", am, TRUE)
    \/ Return
    \/ \E task \in enrichTasks : EnrichRun(task, TRUE)
    \/ \E meta \in AdminMetas : UpdateLicenseRead(1, "", NullTime, meta)
    \/ UpdateLicenseWrite(TRUE)

SpecEnrichRace == InitEnrichRace /\ [][NextEnrichRace]_vars

\* The Validator and both sweeps on the same active licenses, perpetual or with an
\* expiry date before, at or after the time of the check: validations, the lazy
\* goroutine and the passes of the drivers, one pass at a time, in any order, all
\* within one instant; the store accepts every call.
InitOverdue ==
    /\ now \in Times
    /\ licenses \in Stores({1}, {StatusActive}, {"Foo"}, {NullTime} \cup Times, {NilMeta})
    /\ call = NoCall
    /\ expireTasks = [id \in LicenseIds |-> 0]
    /\ enrichTasks = {}
    /\ lastWrite = NoWrite
    /\ sweep = [d \in Drivers |-> IdleSweep]
    /\ update = NoUpdate
    /\ AuthIdle

NextOverdue ==
    \/ call = NoCall /\ ValidateCall(KeyOf(1), "Foo", NilMeta, TRUE)
    \/ Return
    \/ \E id \in LicenseIds : LazyExpireRun(id, TRUE)
    \/ \E task \in enrichTasks : EnrichRun(task, TRUE)
    \/ \E d \in Drivers :
          /\ \A e \in Drivers : sweep[e].pc \in {"idle", "done"}
          /\ SweepStart(d)
    \/ \E d \in Drivers : SweepCount(d, TRUE)
    \/ \E d \in Drivers : \E order \in ListOrders(d) : SweepSelect(d, order, TRUE)
    \/ \E d \in Drivers : SweepRow(d, TRUE)

SpecOverdue == InitOverdue /\ [][NextOverdue]_vars

\* The sweeps, one pass at a time, on tables that hold licenses of every status,
\* perpetual, overdue and not yet due; nothing else writes and the store accepts
\* every call.
InitSweepFrame ==
    /\ now = MaxTime - 1
    /\ \E n \in 1..MaxLicenses :
          licenses \in Stores(1..n, Statuses, {"Foo"}, {NullTime, 1, MaxTime}, {NilMeta})
    /\ call = NoCall
    /\ expireTasks = [id \in LicenseIds |-> 0]
    /\ enrichTasks = {}
    /\ lastWrite = NoWrite
    /\ sweep = [d \in Drivers |-> IdleSweep]
    /\ update = NoUpdate
    /\ AuthIdle

NextSweepFrame ==
    \/ \E d \in Drivers :
          /\ \A e \in Drivers : sweep[e].pc \in {"idle", "done"}
          /\ SweepStart(d)
    \/ \E d \in Drivers : SweepCount(d, TRUE)
    \/ \E d \in Drivers : \E order \in ListOrders(d) : SweepSelect(d, order, TRUE)
    \/ \E d \in Drivers : SweepRow(d, TRUE)

SpecSweepFrame == InitSweepFrame /\ [][NextSweepFrame]_vars

\* The administrative license operations on a store that may fail: licenses of
\* every status are found, licenses are created under fresh or used keys, and the
\* status of present and absent ids is set to every value.
InitAdmin ==
    /\ now = 1
    /\ \E I \in SUBSET (1..(MaxLicenses - 1)) :
          licenses \in Stores(I, Statuses, {"Foo"}, {NullTime}, {NilMeta})
    /\ call = NoCall
    /\ expireTasks = [id \in LicenseIds |-> 0]
    /\ enrichTasks = {}
    /\ lastWrite = NoWrite
    /\ sweep = [d \in Drivers |-> IdleSweep]
    /\ update = NoUpdate
    /\ AuthIdle

NextAdmin ==
    \/ \E id \in LicenseIds, newStatus \in Statuses, dbOk \in BOOLEAN :
          UpdateLicenseStatus(id, newStatus, dbOk)
    \/ \E id \in LicenseIds, k \in LicenseIds, dbOk \in BOOLEAN :
          Create(id, KeyOf(k), "", "Foo", NullTime, NilMeta, dbOk)

SpecAdmin == InitAdmin /\ [][NextAdmin]_vars

\* A binding of the license: a non-empty string under the key in its metadata object.
BindingPresent(lm, k) == lm.kind = "object" /\ IsStr(lm[k]) /\ lm[k][2] # ""
\* The agent's metadata carries the same value under the same key.
BindingMatched(lm, am, k) == am.kind = "object" /\ am[k] = lm[k]
BindingFails(lm, am, k) == BindingPresent(lm, k) /\ ~BindingMatched(lm, am, k)
OverdueAtCall == call.License.expires_at # NullTime /\ call.at > call.License.expires_at

\* C1: a validation that found the license L answers is_valid = true exactly when L
\* is active, L.expires_at is unset or not earlier than the time of the call, the
\* product names are equal, and every binding of L (a non-empty device_id, a
\* non-empty user_id) is matched exactly by the same key of the agent's metadata.
C1_ValidIff ==
    (call # NoCall /\ call.lookup = "none") =>
        (call.IsValid <=>
            /\ call.License.status = StatusActive
            /\ (call.License.expires_at = NullTime \/ call.at <= call.License.expires_at)
            /\ call.License.product_name = call.product
            /\ \A k \in {MetaKeyDeviceID, MetaKeyUserID} :
                  BindingPresent(call.License.metadata, k)
                      => BindingMatched(call.License.metadata, call.metadata, k))

\* A valid answer at the very instant of expiry, for a license bound to a device.
C1_Witness ==
    /\ call.lookup = "none"
    /\ call.IsValid
    /\ call.License.expires_at = call.at
    /\ BindingPresent(call.License.metadata, MetaKeyDeviceID)

\* C3: the reason returned is that of the first failing check in the order lookup,
\* product, status, expiry date, device binding, user binding: not_found for a
\* missing key; product_mismatch whatever the status; the status name whatever the
\* expiry date and the bindings; expired for a passed expires_at whatever the
\* bindings; a device binding failure before any user binding failure.
C3_FirstFailingCheck ==
    LET L == call.License
        productOK == L.product_name = call.product
        statusOK == L.status = StatusActive
        deviceFails == BindingFails(L.metadata, call.metadata, MetaKeyDeviceID)
        userFails == BindingFails(L.metadata, call.metadata, MetaKeyUserID)
    IN  /\ call.lookup = "no_rows" => call.Reason = "not_found"
        /\ call.lookup = "none" =>
              /\ ~productOK => call.Reason = "product_mismatch"
              /\ (productOK /\ ~statusOK) => call.Reason = L.status
              /\ (productOK /\ statusOK /\ OverdueAtCall) => call.Reason = "expired"
              /\ (productOK /\ statusOK /\ ~OverdueAtCall /\ deviceFails)
                    => call.Reason \in {"device_id_required", "device_id_mismatch"}
              /\ (productOK /\ statusOK /\ ~OverdueAtCall /\ ~deviceFails /\ userFails)
                    => call.Reason \in {"user_id_required", "user_id_mismatch"}

\* A wrong product reported for a revoked license whose expiry date has passed.
C3_Witness ==
    /\ call.lookup = "none"
    /\ call.Reason = "product_mismatch"
    /\ call.License.status = StatusRevoked
    /\ OverdueAtCall

Reasons ==
    {"not_found", "product_mismatch", "pending", "inactive", "revoked", "expired",
     "device_id_required", "device_id_mismatch", "user_id_required", "user_id_mismatch",
     "valid"}

\* C10: ValidateLicense returns an error exactly when the lookup failed for another
\* reason than a missing row; every other call returns a result whose reason is one
\* of the eleven reasons, with is_valid true exactly when the reason is valid.
C10_ErrorOnlyOnLookupFailure ==
    call # NoCall =>
        /\ call.err <=> call.lookup = "db"
        /\ ~call.err => /\ call.Reason \in Reasons
                        /\ call.IsValid <=> call.Reason = "valid"

\* A missing key answered as a result, without error.
C10_Witness ==
    /\ call.lookup = "no_rows"
    /\ ~call.err
    /\ call.Reason = "not_found"

\* C4: every UpdateStatus(id, expired) on an existing license that the store
\* accepts, whichever of the lazy path, the startup sweep and the periodic sweep
\* issues it and however often it was applied before, returns no error and leaves
\* the status expired.
C4_DoubleExpirationHarmless ==
    (lastWrite.status = StatusExpired /\ lastWrite.dbOk /\ lastWrite.id \in DOMAIN licenses) =>
        /\ lastWrite.err = "none"
        /\ licenses[lastWrite.id].status = StatusExpired

\* The lazy goroutine has expired, without error, a license that was expired already.
C4_Witness ==
    /\ lastWrite.src = "lazy"
    /\ lastWrite.before = StatusExpired
    /\ lastWrite.dbOk
    /\ lastWrite.err = "none"
    /\ licenses[lastWrite.id].status = StatusExpired

\* A validation has just found the license id active with its expires_at passed.
ValidatedOverdue(id) ==
    /\ call.lookup = "none"
    /\ call.License.id = id
    /\ call.License.product_name = call.product
    /\ call.License.status = StatusActive
    /\ OverdueAtCall

\* C5: a validation of an active license whose expires_at has passed answers
\* is_valid = false with reason expired, and, the goroutine being scheduled fairly
\* and the store accepting its write, the license is eventually stored as expired.
C5_LazyExpiration ==
    /\ [](\A id \in LicenseIds :
             ValidatedOverdue(id) => (~call.IsValid /\ call.Reason = "expired"))
    /\ \A id \in LicenseIds :
          ValidatedOverdue(id) ~> (id \in DOMAIN licenses /\ licenses[id].status = StatusExpired)

\* The goroutine of such a validation is started and the license is still active.
C5_Witness ==
    /\ ValidatedOverdue(call.License.id)
    /\ call.Reason = "expired"
    /\ expireTasks[call.License.id] > 0
    /\ licenses[call.License.id].status = StatusActive

\* The header cut at every delimiter.
Segments(h) == SplitN(h, Len(h) + 1)

\* The record the middleware's lookup met is enabled and holds the hash of the header.
RecordMatches ==
    /\ req.lookupOk
    /\ req.seen # NoKey
    /\ req.seen.is_enabled
    /\ req.seen.key_hash = HashAPIKey(req.header)

PrefixUnknown == req.seen = NoKey
KeyDisabled == req.seen # NoKey /\ ~req.seen.is_enabled
HashDiffers ==
    req.seen # NoKey /\ req.seen.is_enabled /\ req.seen.key_hash # HashAPIKey(req.header)

AccessDenied == [status |-> 403, code |-> "FORBIDDEN", message |-> "Access denied."]

\* C6: a request whose API key has an unknown prefix, a disabled record, or an
\* enabled record with another hash gets one and the same answer, whichever of the
\* three applies: status 403, code FORBIDDEN, the same message, and no validation.
C6_FailuresIndistinguishable ==
    (/\ req.stage = "done"
     /\ req.authRan
     /\ req.lookupOk
     /\ Len(Segments(req.header)) = 3
     /\ Segments(req.header)[1] = SchemeTag
     /\ PrefixUnknown \/ KeyDisabled \/ HashDiffers)
        => (req.response = AccessDenied /\ ~req.validated /\ req.err = ErrKeyNotFound)

\* A wrong secret for an enabled key has been answered.
C6_Witness ==
    /\ req.stage = "done"
    /\ req.lookupOk
    /\ Len(Segments(req.header)) = 3
    /\ HashDiffers
    /\ req.response = AccessDenied

\* C7: a request that presents the exact credential of a key that was disabled
\* when the middleware looked it up is rejected, a disabled key is never enabled
\* again, and no second record takes its prefix.
C7_RevokedKeyRejected ==
    /\ []((req.authRan /\ KeyDisabled /\ req.seen.key_hash = HashAPIKey(req.header))
             => (req.aborted /\ ~req.validated /\ req.response.status # 200))
    /\ [](\A i, j \in DOMAIN apikeys : apikeys[i].prefix = apikeys[j].prefix => i = j)
    /\ [][\A id \in DOMAIN apikeys :
             ~apikeys[id].is_enabled => (id \in DOMAIN apikeys' /\ ~apikeys'[id].is_enabled)]_vars

\* The exact credential of a revoked key has been presented and refused.
C7_Witness ==
    /\ req.stage = "done"
    /\ KeyDisabled
    /\ req.seen.key_hash = HashAPIKey(req.header)
    /\ req.response = AccessDenied

\* The answer to a request the middleware refused, by class.
RefusedAs(code, status) ==
    req.stage = "done" => (req.response.code = code /\ req.response.status = status)

\* The classes of C8 for a given reading of "well formed".
AuthClasses(wellFormed) ==
    req.authRan =>
        /\ ~req.aborted <=> (wellFormed /\ RecordMatches)
        /\ (req.aborted /\ ~wellFormed) => RefusedAs("UNAUTHENTICATED", 401)
        /\ (req.aborted /\ wellFormed /\ ~req.lookupOk) => RefusedAs("INTERNAL_ERROR", 500)
        /\ (req.aborted /\ wellFormed /\ req.lookupOk) => RefusedAs("FORBIDDEN", 403)

\* C8 as stated: the header passes exactly when it has exactly three segments, the
\* first of them lm, and an enabled record under the second holds the hash of the
\* header; any other structure is Unauthenticated, a well-formed header without
\* such a record Forbidden, a failed lookup Internal.
C8_ExactlyThreeSegments ==
    AuthClasses(Len(Segments(req.header)) = 3 /\ Segments(req.header)[1] = SchemeTag)

\* C8, amended: the same with a header of three or more segments as well formed,
\* the segments after the second delimiter being part of the secret.
C8_AtLeastThreeSegments ==
    AuthClasses(Len(Segments(req.header)) >= 3 /\ Segments(req.header)[1] = SchemeTag)

\* A header of four segments has been answered Forbidden.
C8_Witness ==
    /\ req.stage = "done"
    /\ Len(Segments(req.header)) = 4
    /\ req.response.code = "FORBIDDEN"

\* The middleware let the request through on a matching enabled record.
AuthSucceeded ==
    /\ req.authRan
    /\ Len(Segments(req.header)) >= 3
    /\ Segments(req.header)[1] = SchemeTag
    /\ RecordMatches

\* C9: the Validator is called, and a lazy-expiration or enrichment goroutine is
\* started, only for a request in the chain whose API-key authentication has
\* succeeded; the license table is written only by such a goroutine.
C9_ValidatorOnlyAfterAuth ==
    /\ [](req.validated => AuthSucceeded)
    /\ [][(\/ call' # call
           \/ \E id \in LicenseIds : expireTasks'[id] > expireTasks[id]
           \/ ~(enrichTasks' \subseteq enrichTasks))
             => (req.stage = "chain" /\ AuthSucceeded /\ req'.validated)]_vars
    /\ [][licenses' # licenses
             => (\/ \E id \in LicenseIds : expireTasks'[id] < expireTasks[id]
                 \/ \E task \in enrichTasks : task \notin enrichTasks')]_vars

\* An authenticated request has reached the Validator, which found the license
\* overdue and started the lazy goroutine.
C9_Witness ==
    /\ req.validated
    /\ AuthSucceeded
    /\ call.Reason = "expired"
    /\ expireTasks[1] > 0

ActiveOverdue(t) ==
    {id \in DOMAIN licenses :
        /\ licenses[id].status = StatusActive
        /\ licenses[id].expires_at # NullTime
        /\ licenses[id].expires_at < t}

\* C2: after a reconciliation pass (startup or periodic) has returned without
\* error, no license is active with an expires_at earlier than the reference time
\* of the pass, whatever the number of active licenses.
C2_ConvergenceAfterPass ==
    \A d \in Drivers :
        (sweep[d].pc = "done" /\ sweep[d].err = "none") => ActiveOverdue(sweep[d].now) = {}

\* C11: a validation that reaches the metadata checks (key found, product equal,
\* status active, expiry not passed) on a license whose stored metadata is not a
\* JSON object returns an error and no validation result.
C11_MalformedMetadataIsError ==
    (/\ call.lookup = "none"
     /\ call.License.product_name = call.product
     /\ call.License.status = StatusActive
     /\ ~OverdueAtCall
     /\ call.License.metadata.kind = "nonobject") => call.err

\* The call reached the metadata checks: key found, product equal, status active,
\* expiry not passed.
AtMetadataChecks ==
    /\ call.lookup = "none"
    /\ call.License.product_name = call.product
    /\ call.License.status = StatusActive
    /\ ~OverdueAtCall

\* The agent's metadata is an object with a non-empty string under the key.
AgentSupplies(am, k) == am.kind = "object" /\ IsStr(am[k]) /\ am[k][2] # ""

\* What the binding under key k demands of the call.
BindingVerdict(lm, am, k, required, mismatch) ==
    IF ~BindingPresent(lm, k) THEN "ok"
    ELSE IF ~AgentSupplies(am, k) THEN required
    ELSE IF am[k] # lm[k] THEN mismatch
    ELSE "ok"

\* C12: for a license bound to a non-empty device_id D, an agent without metadata,
\* without device_id or with an empty device_id is answered device_id_required, an
\* agent with another device_id is answered device_id_mismatch, and an agent with
\* device_id D passes the device check; the same for user_id once the device check
\* has passed; a license without a (non-empty) device_id or user_id demands nothing.
C12_BindingReasons ==
    AtMetadataChecks =>
        LET lm == call.License.metadata
            am == call.metadata
            d == BindingVerdict(lm, am, MetaKeyDeviceID, "device_id_required", "device_id_mismatch")
            u == BindingVerdict(lm, am, MetaKeyUserID, "user_id_required", "user_id_mismatch")
        IN  /\ d # "ok" => call.Reason = d
            /\ (d = "ok" /\ u # "ok") => call.Reason = u
            /\ (d = "ok" /\ u = "ok") => call.Reason = "valid"

\* A call that matched the device binding and failed the user binding with another
\* user_id.
C12_Witness ==
    /\ AtMetadataChecks
    /\ BindingPresent(call.License.metadata, MetaKeyDeviceID)
    /\ BindingMatched(call.License.metadata, call.metadata, MetaKeyDeviceID)
    /\ BindingPresent(call.License.metadata, MetaKeyUserID)
    /\ AgentSupplies(call.metadata, MetaKeyUserID)
    /\ call.Reason = "user_id_mismatch"

\* C13: the response data of a successful validation is present exactly when the
\* license metadata is an object with the key features or the key limits, and then
\* carries those of the two keys that are stored, with their stored values, and no
\* other key of the metadata.
C13_AllowedDataWhitelist ==
    (call # NoCall /\ call.IsValid) =>
        LET lm == call.License.metadata
            rd == call.ResponseData
        IN  /\ DOMAIN rd = {"present", MetaKeyFeatures, MetaKeyLimits}
            /\ rd.present <=> (lm.kind = "object" /\ (lm.features # Absent \/ lm.limits # Absent))
            /\ rd.present => (rd.features = lm.features /\ rd.limits = lm.limits)

\* What a validation of the license under key, with the given inputs, returns in
\* the current state: (is_valid, reason, allowed_data).
ResultNow(key, product, am) ==
    LET o == ValidateOutcome(FindByKey(key, TRUE), product, am, now)
    IN  <<o.IsValid, o.Reason, o.ResponseData>>

\* The license is stored active, unexpired and unbound.
ActiveUnexpiredUnbound(id) ==
    /\ id \in DOMAIN licenses
    /\ licenses[id].status = StatusActive
    /\ ~DateExpired(licenses[id], now)
    /\ ~BindingPresent(licenses[id].metadata, MetaKeyDeviceID)
    /\ ~BindingPresent(licenses[id].metadata, MetaKeyUserID)

\* C14: as long as a license is active, unexpired and unbound, no step (a further
\* validation, an enrichment write of an earlier one, the passing of time) changes
\* what a validation with given inputs returns, so every repetition of a call
\* returns the same (is_valid, reason, allowed_data).
C14_RepeatedValidationSame ==
    [][\A id \in DOMAIN licenses, product \in Products, am \in EnrichAgents :
          (ActiveUnexpiredUnbound(id) /\ ActiveUnexpiredUnbound(id)')
              => ResultNow(KeyOf(id), product, am)' = ResultNow(KeyOf(id), product, am)]_vars

\* A second successful validation of an unbound license that stores features, after
\* the enrichment write of an earlier validation has been applied, with a third
\* write still to come.
C14_Witness ==
    /\ ActiveUnexpiredUnbound(1)
    /\ call.IsValid
    /\ call.ResponseData.present
    /\ call.License.metadata.last_validated_at # Absent
    /\ call.at > 1
    /\ enrichTasks # {}

MetaKeys ==
    {MetaKeyDeviceID, MetaKeyUserID, MetaKeyIPAddress, MetaKeyLastValidatedAt,
     MetaKeyFeatures, MetaKeyLimits, "last_ip", "note"}

\* The value under key k of a blob read as an object (no key when it is not one).
ReadKey(m, k) == IF m.kind = "object" THEN Float64(m[k]) ELSE Absent

\* C15: the enrichment write of a validation stores the metadata that validation
\* read, with its own update merged in, whatever other validations have stored in
\* the meantime; two validations that read the same base therefore overwrite each
\* other, and the update of the one written first is lost.
C15_WriteBackOfReadBase ==
    [][\A task \in enrichTasks :
          (task \notin enrichTasks' /\ licenses'[task.id].metadata # licenses[task.id].metadata)
              => \A k \in MetaKeys :
                    licenses'[task.id].metadata[k] =
                        IF k = MetaKeyLastValidatedAt THEN task.last_validated_at
                        ELSE IF k = "last_ip" /\ task.last_ip # Absent THEN task.last_ip
                        ELSE ReadKey(task.currentMeta, k)]_vars

\* Two validations read the same base, the first at time 1 without ip_address, the
\* second at time 2 with one; both goroutines have run and the store accepted both
\* writes, yet what is stored is the write of the first: the last_ip and the
\* last_validated_at of the second are gone.
C15_Witness ==
    /\ enrichTasks = {}
    /\ call.spawn = "enrich"
    /\ call.at = 2
    /\ call.License.metadata.last_validated_at = Absent
    /\ call.metadata.ip_address = JStr("10.0.0.1")
    /\ licenses[1].metadata.last_validated_at = JStr("1")
    /\ licenses[1].metadata.last_ip = Absent

\* C16: an enrichment write that finds the metadata its validation read (no other
\* writer in between), an object, leaves that object with last_validated_at set to
\* the time of the validation and, only when the agent sent a non-empty ip_address,
\* last_ip set to it; every other key keeps its stored value and no other field of
\* the license changes.
C16_EnrichmentFrame ==
    [][\A task \in enrichTasks :
          (/\ task \notin enrichTasks'
           /\ licenses' # licenses
           /\ licenses[task.id].metadata = task.currentMeta
           /\ task.currentMeta.kind = "object")
              => LET old == licenses[task.id]
                     new == licenses'[task.id]
                 IN  /\ new.metadata.kind = "object"
                     /\ new.metadata.last_validated_at = task.last_validated_at
                     /\ new.metadata.last_ip =
                            IF task.last_ip # Absent THEN task.last_ip ELSE old.metadata.last_ip
                     /\ \A k \in MetaKeys \ {MetaKeyLastValidatedAt, "last_ip"} :
                            new.metadata[k] = old.metadata[k]
                     /\ [new EXCEPT !.metadata = old.metadata] = old]_vars

\* A detached goroutine has run in this step.
ExpireRan == \E id \in LicenseIds : expireTasks'[id] < expireTasks[id]
EnrichRan == enrichTasks' # enrichTasks /\ enrichTasks' \subseteq enrichTasks
LastUsedRan == usedTasks' # usedTasks /\ usedTasks' \subseteq usedTasks
Pending == <<expireTasks, enrichTasks, usedTasks>>

C18_DetachedSurvivesCancel ==
    /\ (req.cancelled /\ expireTasks[1] > 0) ~> (licenses[1].status = StatusExpired)
    /\ (req.cancelled /\ enrichTasks # {})
           ~> (licenses[1].metadata.last_validated_at # Absent)
    /\ (req.cancelled /\ 1 \in usedTasks)
           ~> (1 \in DOMAIN apikeys /\ apikeys[1].last_used_at # NullTime)

\* The request was cancelled after the Validator had detached the enrichment
\* goroutine and the middleware the last-used goroutine; neither has run yet.
C18_Witness ==
    /\ req.cancelled
    /\ req.validated
    /\ enrichTasks # {}
    /\ 1 \in usedTasks
    /\ licenses[1].metadata.last_validated_at = Absent
    /\ apikeys[1].last_used_at = NullTime

\* C19: issued_at is set exactly on the licenses created active, by an explicit
\* initial_status or by the default, and is then the time of the creation; no
\* later operation sets, clears or changes it; a create request without
\* initial_status yields status active.
C19_IssuedAtOnlyAtCreation ==
    /\ [](\A id \in DOMAIN licenses :
             /\ licenses[id].issued_at # NullTime
                    <=> licenses[id].requested \in {"", StatusActive}
             /\ licenses[id].issued_at \in {NullTime, licenses[id].created_at})
    /\ [][\A id \in DOMAIN licenses' :
             IF id \in DOMAIN licenses
             THEN licenses'[id].issued_at = licenses[id].issued_at
             ELSE licenses'[id].requested = "" => licenses'[id].status = StatusActive]_vars

\* A license created as pending, later moved to active by a status update and
\* changed by an UpdateLicense after that: still active, issued_at still unset.
C19_Witness ==
    /\ 1 \in DOMAIN licenses
    /\ licenses[1].requested = StatusPending
    /\ licenses[1].status = StatusActive
    /\ licenses[1].product_name = "Bar"
    /\ licenses[1].issued_at = NullTime
    /\ lastWrite.src = "admin"

\* C20: a license moves from active to expired only when its expires_at is set and
\* has passed, never by an administrative request.
C20_ExpiredOnlyByTime ==
    [][\A id \in DOMAIN licenses :
          (licenses[id].status = StatusActive /\ licenses'[id].status = StatusExpired)
              => /\ licenses[id].expires_at # NullTime
                 /\ licenses[id].expires_at < now
                 /\ lastWrite'.src # "admin"]_vars

\* The license id moves from active to expired in this step.
Expires(id) ==
    /\ id \in DOMAIN licenses
    /\ licenses[id].status = StatusActive
    /\ licenses'[id].status = StatusExpired

\* The step is the administrative status update of id to expired.
ByAdminRequest(id) ==
    /\ lastWrite' = [lastWrite' EXCEPT !.src = "admin", !.id = id, !.status = StatusExpired]
    /\ expireTasks' = expireTasks
    /\ sweep' = sweep
    /\ update' = update

\* The step is the write of an UpdateLicense that had read id as expired.
ByUpdateWriteBack(id) ==
    /\ update.pc = "write"
    /\ update' = NoUpdate
    /\ update.current.id = id
    /\ update.current.status = StatusExpired

\* The step is the run of a lazy-expiration goroutine of id.
ByLazyPath(id) == expireTasks'[id] < expireTasks[id]

\* The step is the iteration of a sweep on the row of id, which the sweep read with
\* an expires_at set and earlier than its reference time.
BySweep(id) ==
    \E d \in Drivers :
        /\ sweep[d].pc = "rows"
        /\ sweep'[d] # sweep[d]
        /\ sweep[d].page[sweep[d].i].id = id
        /\ sweep[d].page[sweep[d].i].expires_at # NullTime
        /\ sweep[d].page[sweep[d].i].expires_at < sweep[d].now

\* C20, amended: the Validator starts a lazy expiration only for a license it read
\* as active with an expires_at set and passed, and a license moves from active to
\* expired only by such a goroutine, by a sweep that read its expires_at as set and
\* passed, by an administrative status update to expired, or by the write of an
\* UpdateLicense that had read it as expired.
C20_ExpiredByTimeOrAdmin ==
    /\ [][\A id \in LicenseIds :
             expireTasks'[id] > expireTasks[id]
                 => /\ call'.License.id = id
                    /\ call'.License.status = StatusActive
                    /\ call'.License.expires_at # NullTime
                    /\ call'.License.expires_at < call'.at]_vars
    /\ [][\A id \in DOMAIN licenses :
             Expires(id) => \/ ByLazyPath(id)
                            \/ BySweep(id)
                            \/ ByAdminRequest(id)
                            \/ ByUpdateWriteBack(id)]_vars

\* The periodic sweep has moved an overdue license from active to expired.
C20_Witness ==
    /\ lastWrite.src = "periodic"
    /\ lastWrite.before = StatusActive
    /\ lastWrite.status = StatusExpired
    /\ lastWrite.err = "none"
    /\ licenses[1].status = StatusExpired
    /\ licenses[1].expires_at # NullTime
    /\ licenses[1].expires_at < now

\* C21: the administrative status update succeeds for every target status from
\* every current status of an existing license and sets exactly that status; for an
\* id that no license has it returns not found and changes no license (on a store
\* that answers).
C21_StatusUpdateUnguarded ==
    /\ [](\A id \in LicenseIds, s \in Statuses :
             IF id \in DOMAIN licenses
             THEN /\ UpdateStatusResult(id, s, TRUE) = "none"
                  /\ UpdateStatusRows(id, s, TRUE) = [licenses EXCEPT ![id].status = s]
             ELSE /\ UpdateStatusResult(id, s, TRUE) = "not_found"
                  /\ UpdateStatusRows(id, s, TRUE) = licenses)
    /\ [][(lastWrite' # lastWrite /\ lastWrite'.src = "admin" /\ lastWrite'.dbOk)
             => IF lastWrite'.id \in DOMAIN licenses
                THEN /\ lastWrite'.err = "none"
                     /\ licenses' = [licenses EXCEPT ![lastWrite'.id].status = lastWrite'.status]
                ELSE /\ lastWrite'.err = "not_found"
                     /\ licenses' = licenses]_vars

\* A revoked license has been set back to active by the administrative update, and
\* the last update named an id that no license has.
C21_Witness ==
    /\ lastWrite.src = "admin"
    /\ lastWrite.dbOk
    /\ lastWrite.id \notin DOMAIN licenses
    /\ lastWrite.err = "not_found"
    /\ \E id \in DOMAIN licenses :
          licenses[id].status = StatusActive /\ licenses[id].requested = StatusPending

\* The loop of driver d ends after the page of s: the page is short, or the
\* periodic driver has passed the reported total.
LastPage(d, s) ==
    \/ Len(s.page) < Limit(d)
    \/ d = "periodic" /\ s.offset + Limit(d) > s.total /\ s.total > 0

\* C22: an iteration of a sweep over a row, whether its status update fails or not,
\* goes on to the next row of the page, and after the last row to the next page
\* unless the loop ends there, and never sets the error of the sweep; the sweep
\* returns an error only from a failed listing, which ends it, and a listing step
\* ends the sweep without error only on an empty result.
C22_RowFailureDoesNotAbort ==
    /\ [](\A d \in Drivers :
             /\ sweep[d].err \in {"none", "list_failed"}
             /\ sweep[d].err = "list_failed" => sweep[d].pc = "done")
    /\ [][\A d \in Drivers :
             /\ (sweep[d].pc = "rows" /\ sweep'[d] # sweep[d])
                    => /\ sweep'[d].err = "none"
                       /\ IF sweep[d].i < Len(sweep[d].page)
                          THEN /\ sweep'[d].pc = "rows"
                               /\ sweep'[d].page = sweep[d].page
                               /\ sweep'[d].i = sweep[d].i + 1
                          ELSE IF LastPage(d, sweep[d])
                          THEN sweep'[d].pc = "done"
                          ELSE /\ sweep'[d].pc = "count"
                               /\ sweep'[d].offset = sweep[d].offset + Limit(d)
             /\ (sweep[d].pc \in {"count", "select"} /\ sweep'[d].pc = "done"
                    /\ sweep'[d].err = "none")
                    => Cardinality(ActiveIds) <= sweep[d].offset
             /\ (sweep[d].err = "none" /\ sweep'[d].err # "none")
                    => sweep[d].pc \in {"count", "select"}]_vars

\* The startup sweep has returned without error after the update of license 1
\* failed and that of license 2, later on the same page, succeeded; the periodic
\* sweep has returned the error of a failed listing.
C22_Witness ==
    /\ sweep["startup"].pc = "done"
    /\ sweep["startup"].err = "none"
    /\ sweep["startup"].updatedCount = 1
    /\ 2 \in DOMAIN licenses
    /\ licenses[1].status = StatusActive
    /\ Overdue(licenses[1], sweep["startup"].now)
    /\ licenses[2].status = StatusExpired
    /\ lastWrite = [src |-> "startup", id |-> 2, status |-> StatusExpired, dbOk |-> TRUE,
                    before |-> StatusActive, err |-> "none"]
    /\ sweep["periodic"].pc = "done"
    /\ sweep["periodic"].err = "list_failed"

\* C23: every started sweep comes to its end, whatever other writers insert or
\* change between its page fetches; its offset grows by the page size with every
\* further fetch and never passes the size of the table by more than two pages; it
\* ends without error only on an empty page, a short page or, for the periodic
\* driver, an offset past the total reported.
C23_SweepTerminates ==
    /\ \A d \in Drivers : (sweep[d].pc # "idle") ~> (sweep[d].pc = "done")
    /\ [](\A d \in Drivers : sweep[d].offset <= MaxLicenses + Limit(d))
    /\ [][\A d \in Drivers :
             /\ (sweep[d].pc = "rows" /\ sweep'[d].pc = "count")
                    => sweep'[d].offset = sweep[d].offset + Limit(d)
             /\ (sweep[d].pc \in {"count", "select"} /\ sweep'[d].pc # "done")
                    => sweep'[d].offset = sweep[d].offset
             /\ (sweep[d].pc # "done" /\ sweep'[d].pc = "done" /\ sweep'[d].err = "none")
                    => \/ sweep[d].pc \in {"count", "select"} /\ sweep'[d].page = <<>>
                       \/ sweep[d].pc = "rows" /\ Len(sweep[d].page) < Limit(d)
                       \/ /\ sweep[d].pc = "rows"
                          /\ d = "periodic"
                          /\ sweep[d].offset + Limit(d) > sweep[d].total]_vars

\* The startup sweep is at its second page fetch on a table that another writer
\* has changed since the first one: a license was created and a license that the
\* first page expired is active again.
C23_Witness ==
    /\ sweep["startup"].pc = "select"
    /\ sweep["startup"].offset = Limit("startup")
    /\ sweep["startup"].updatedCount > 0
    /\ lastWrite.src = "admin"
    /\ lastWrite.before = StatusExpired
    /\ lastWrite.status = StatusActive
    /\ \E id \in DOMAIN licenses : licenses[id].requested = ""

\* The sweep of driver d stands between two pages.
BetweenPages(d) == sweep[d].pc \in {"count", "select"} /\ sweep[d].offset > 0

\* C24: between two pages of a sweep, of either driver, every active overdue
\* license the sweep has not yet examined expires no earlier than every license
\* with an expiry date that it has examined.
C24_MostUrgentFirst ==
    \A d \in Drivers :
        BetweenPages(d) =>
            \A e \in sweep[d].examined, u \in ActiveOverdue(sweep[d].now) \ sweep[d].examined :
                licenses[e].expires_at # NullTime
                    => licenses[u].expires_at >= licenses[e].expires_at

\* C25: in every run of the server process the startup sweep is started, and once
\* it has come to its end it is not started again.
C25_StartupSweepOnce ==
    /\ <>(sweep["startup"].pc # "idle")
    /\ [][sweep["startup"].pc = "done" => sweep'["startup"].pc = "done"]_vars

\* No two stored API keys have the same prefix.
PrefixUnique ==
    \A i, j \in DOMAIN apikeys : apikeys[i].prefix = apikeys[j].prefix => i = j

\* A request to create an API key that met a UNIQUE violation leaves the table as
\* it was.
CollisionStoresNothing ==
    [][(admin' # admin /\ admin'.op = "APIKeyCreate" /\ admin'.cause = "duplicate")
          => apikeys' = apikeys]_vars

\* C26: no two key records share a prefix, the creation of a key with a used
\* prefix leaves the stored keys unchanged, and it fails with an error of kind
\* Conflict, answered as such.
C26_PrefixCollisionIsConflict ==
    /\ []PrefixUnique
    /\ CollisionStoresNothing
    /\ []((admin.op = "APIKeyCreate" /\ admin.cause = "duplicate")
             => /\ admin.err.is = "ErrConflict"
                /\ admin.response.status = 409
                /\ admin.response.code = "CONFLICT")

\* No two stored licenses have the same license_key.
LicenseKeyUnique ==
    \A i, j \in DOMAIN licenses : licenses[i].license_key = licenses[j].license_key => i = j

\* C27: license_key is unique over the stored licenses, and a creation refused for
\* a used license_key returns an error of a kind of its own, which the error of a
\* failing store does not have, and is answered differently from it.
C27_DuplicateKeyDistinct ==
    /\ LicenseKeyUnique
    /\ (admin.op = "Create" /\ admin.cause = "duplicate")
          => /\ admin.err.is # ""
             /\ admin.err.is # CreateLicenseError(KeyOf(1), FALSE).is
             /\ admin.response # CreateResponse(CreateLicenseError(KeyOf(1), FALSE))

\* The error kinds ErrorHandlerMiddleware answers with a response of their own.
ClassifiedKinds ==
    {"ErrValidation", "ErrUnauthorized", "ErrInvalidCredentials", "ErrInvalidToken",
     "ErrForbidden", "ErrNotFound", "ErrUserNotFound", "ErrConflict"}

\* The response ErrorHandlerMiddleware starts from: status 500 and a message that
\* says nothing of the error.
GenericInternalError ==
    [status |-> 500, code |-> "INTERNAL_ERROR", message |-> "An unexpected error occurred."]

\* C28: a request that ended with an error of no classified kind is answered with
\* the generic internal-error response, the same whatever the underlying error.
C28_InternalErrorsGeneric ==
    (req.stage = "done" /\ req.err # NoError /\ req.err.is \notin ClassifiedKinds)
        => req.response = GenericInternalError

\* C29: the full key of every stored API key is lm, a prefix of exactly
\* APIKeyPrefixLength characters and a secret of exactly APIKeySecretLength
\* characters, joined by "_".
C29_KeyHasFixedLengths ==
    \A id \in DOMAIN apikeys :
        LET parts == SplitN(apikeys[id].key_hash[2], 3)
        IN  /\ Len(parts) = 3
            /\ parts[1] = SchemeTag
            /\ Len(parts[2]) = APIKeyPrefixLength
            /\ Len(parts[3]) = APIKeySecretLength

\* C30: a run of the lazy-expiration goroutine or an iteration of a sweep on a
\* license whose stored status is pending, inactive or revoked at that moment
\* leaves that status as it is.
C30_ExpirationOnlyFromActive ==
    [][\A id \in DOMAIN licenses :
          (/\ ByLazyPath(id) \/ BySweep(id)
           /\ licenses[id].status \in {StatusPending, StatusInactive, StatusRevoked})
              => licenses'[id].status = licenses[id].status]_vars

\* C31: under any interleaving of successful validations with administrative
\* metadata updates, an enrichment write changes no metadata key other than
\* last_validated_at and last_ip: what an administrator stored under device_id,
\* user_id, features or limits is neither removed nor reverted by it.
C31_EnrichmentKeepsAdminKeys ==
    [][\A task \in enrichTasks :
          task \notin enrichTasks'
              => \A k \in MetaKeys \ {MetaKeyLastValidatedAt, "last_ip"} :
                    ReadKey(licenses'[task.id].metadata, k)
                        = ReadKey(licenses[task.id].metadata, k)]_vars

\* C32: the write of UpdateLicense changes neither the status nor the issued_at of
\* a license, whatever UpdateLicenseStatus, the lazy expiration and the sweeps have
\* written since the license was read: the status stored after it is the one the
\* most recent status-changing operation wrote.
C32_UpdateKeepsStatus ==
    [][(update.pc = "write" /\ update'.pc = "idle")
          => \A id \in DOMAIN licenses :
                /\ licenses'[id].status = licenses[id].status
                /\ licenses'[id].issued_at = licenses[id].issued_at]_vars

\* C33: when the lazy-expiration goroutine or a sweep sets a license to expired,
\* the expires_at stored at the moment of that write is set and has passed, also
\* when an UpdateLicense has changed it since the license was read as overdue.
C33_ExpiredOnlyWhenOverdueAtWrite ==
    [][\A id \in DOMAIN licenses :
          (/\ ByLazyPath(id) \/ BySweep(id)
           /\ licenses[id].status # StatusExpired
           /\ licenses'[id].status = StatusExpired)
              => Overdue(licenses[id], now)]_vars

\* The tables a whole pass of driver d can leave when it starts now on the stored
\* table.
FinalStores(d) == {r.licenses : r \in PassFrom(d, licenses, lastWrite, now, 0)}

\* C34: started on the same table with the same reference time and with no other
\* writer, the startup sweep and the periodic sweep expire the same licenses and
\* leave the same table.
C34_SweepsEquivalent == FinalStores("startup") = FinalStores("periodic")

\* The expiry date e is set and strictly earlier than the instant t.
Passed(e, t) == e # NullTime /\ e < t

\* C35: the Validator and the sweeps apply the same overdue test.  A validation
\* that finds the license active under the right product answers expired, and
\* starts the lazy expiration, exactly when expires_at is set and strictly earlier
\* than the time of the validation; an iteration of a sweep issues the status
\* write exactly when the expires_at of its row is set and strictly earlier than
\* the reference time of the sweep.  A license whose expires_at equals that instant
\* is valid for the Validator and passed over by the sweep.
C35_SameOverduePredicate ==
    /\ [](( /\ call # NoCall
             /\ call.lookup = "none"
             /\ call.License.product_name = call.product
             /\ call.License.status = StatusActive)
              => /\ (call.Reason = "expired" /\ call.spawn = "expire")
                        <=> Passed(call.License.expires_at, call.at)
                 /\ call.License.expires_at = call.at => call.IsValid)
    /\ [][\A d \in Drivers :
             (sweep[d].pc = "rows" /\ sweep'[d] # sweep[d])
                 => LET row == sweep[d].page[sweep[d].i]
                    IN  /\ (lastWrite' # lastWrite) <=> Passed(row.expires_at, sweep[d].now)
                        /\ lastWrite' # lastWrite
                               => /\ lastWrite'.src = d
                                  /\ lastWrite'.id = row.id
                                  /\ licenses'[row.id].status = StatusExpired
                        /\ row.expires_at = sweep[d].now => licenses' = licenses]_vars

\* A license whose expires_at is the present instant has just been validated as
\* valid, and a sweep started at the same instant has passed over it: it is active.
C35_Witness ==
    /\ call.at = now
    /\ call.License.expires_at = now
    /\ call.IsValid
    /\ \E d \in Drivers :
          /\ sweep[d].pc = "done"
          /\ sweep[d].now = now
          /\ call.License.id \in sweep[d].examined
    /\ licenses[call.License.id].status = StatusActive

\* The step is a call of ValidateLicense.
Validates == call = NoCall /\ call' # NoCall

\* The validation found the license active under the right product and past its
\* expiry date.
DateExpiredOutcome(c) ==
    /\ ~c.err
    /\ c.Reason = "expired"
    /\ c.License.status = StatusActive

\* C36: a validation changes nothing in the license store itself.  It starts the
\* lazy-expiration goroutine exactly when its outcome is date-expired and the
\* enrichment goroutine exactly when its outcome is valid; a validation that
\* returns an error, not_found, product_mismatch, the reason of a non-active status
\* or a binding failure starts no goroutine, so no write follows from it.
C36_ValidationWritesOnlyByOutcome ==
    [][Validates =>
          /\ licenses' = licenses
          /\ lastWrite' = lastWrite
          /\ (expireTasks' # expireTasks) <=> DateExpiredOutcome(call')
          /\ DateExpiredOutcome(call')
                 => expireTasks' = [expireTasks EXCEPT ![call'.License.id] = @ + 1]
          /\ (enrichTasks' # enrichTasks) => call'.IsValid
          /\ call'.IsValid
                 => /\ enrichTasks' \ enrichTasks \subseteq
                           {EnrichTask(call'.License, call'.metadata, call'.at)}
                    /\ EnrichTask(call'.License, call'.metadata, call'.at) \in enrichTasks'
          /\ ~call'.IsValid => enrichTasks' = enrichTasks
          /\ (call'.err \/ call'.Reason \in
                  {"not_found", "product_mismatch", StatusPending, StatusInactive,
                   StatusRevoked, "device_id_required", "device_id_mismatch",
                   "user_id_required", "user_id_mismatch"}
                \/ (call'.Reason = "expired" /\ call'.License.status = StatusExpired))
                 => /\ call'.spawn = "none"
                    /\ expireTasks' = expireTasks
                    /\ enrichTasks' = enrichTasks]_vars

\* A validation has just been refused for a device mismatch on an active license
\* that is not overdue: no goroutine is pending and no write has been made.
C36_Witness ==
    /\ call.Reason = "device_id_mismatch"
    /\ call.License.status = StatusActive
    /\ enrichTasks = {}
    /\ \A id \in LicenseIds : expireTasks[id] = 0
    /\ lastWrite = NoWrite
    /\ licenses[1] = call.License

FullKeyOf(id) == apikeys[id].key_hash[2]

\* Strings of up to two characters that hold no delimiter, the empty one included:
\* what generateRandomString can return at its shortest.
ShortStrings == {<<>>} \cup {<<a>> : a \in Base64Letters} \cup (Base64Letters \X Base64Letters)

\* C38: the full key returned for a stored key that has not been disabled
\* authenticates.  The middleware cuts from it exactly the stored prefix, the hash
\* of what was presented equals the stored key_hash, the request passes the
\* middleware without an error and the key found is that key; the cut gives back
\* prefix and secret for every string without delimiter, down to the empty one.
C38_IssuedKeyAuthenticates ==
    /\ [](\A id \in DOMAIN apikeys :
             apikeys[id].is_enabled
                 => /\ Len(SplitN(FullKeyOf(id), 3)) = 3
                    /\ SplitN(FullKeyOf(id), 3)[1] = SchemeTag
                    /\ SplitN(FullKeyOf(id), 3)[2] = apikeys[id].prefix
                    /\ HashAPIKey(FullKeyOf(id)) = apikeys[id].key_hash
                    /\ APIKeyAuth(FullKeyOf(id), TRUE) = [err |-> NoError, key |-> apikeys[id]])
    /\ [](\A p \in ShortStrings, q \in ShortStrings :
             SplitN(GenerateAPIKey(p, q).fullKey, 3) = <<SchemeTag, p, q>>)
    /\ [][(req.stage = "chain" /\ ~req.authRan /\ req'.authRan)
             => \A id \in DOMAIN apikeys :
                   (apikeys[id].is_enabled /\ req.header = FullKeyOf(id))
                       => /\ ~req'.aborted
                          /\ req'.err = NoError
                          /\ id \in usedTasks']_vars

\* A request presenting the full key of an enabled key whose prefix lost characters
\* to the removal of "-" and "_" has passed the middleware and reached the handler.
C38_Witness ==
    \E id \in DOMAIN apikeys :
        /\ apikeys[id].is_enabled
        /\ Len(apikeys[id].prefix) < APIKeyPrefixLength
        /\ req.header = FullKeyOf(id)
        /\ req.authRan
        /\ ~req.aborted
        /\ req.validated

====
